---- MODULE Spec2Model ----
(***************************************************************************)
(* Model of ttv (vstegen/ttv): the watch orchestrator (src/src/watch.rs)   *)
(* and the token freshness predicate (src/src/follow.rs).                  *)
(*                                                                         *)
(* One specification per part: SpecWatch (watch::run), SpecNormalize       *)
(* (normalize_inputs), SpecParse (parse_twitch_url, parse_login) and       *)
(* SpecToken (token_needs_refresh), SpecCli (auth::run with save_config,   *)
(* follow::run, list::run) and SpecFetch (the batching and error mapping   *)
(* of twitch.rs). The variables of the other parts stay at their idle      *)
(* values.                                                                 *)
(*                                                                         *)
(* Strings are sequences of one-character strings, so that strip_prefix,   *)
(* contains, to_lowercase and trim are computed as the code computes them. *)
(***************************************************************************)
EXTENDS Integers, Sequences, FiniteSets, TLC

VARIABLES
    \* ---- watch::run ----
    streams,    \* WatchArgs.streams: the raw inputs
    avail,      \* environment: what happens when `<name> --version` is executed
    wpc,        \* position of watch::run
    logins,     \* result of normalize_inputs, the Vec the spawn loop iterates
    spawned,    \* per target index: "none" | "ok" | "failed" (result of cmd.spawn())
    child,      \* per target index: "none" | "running" | "exit0" | "exit1" | "waiterr"
    handles,    \* Vec of join handles, as target indices in push order
    joined,     \* number of handles the join loop has awaited
    outcomes,   \* the match arm taken for each awaited handle, in await order
    failed,     \* Vec `failed` of the join loop
    result,     \* what watch::run returned
    \* ---- normalize_inputs / parse_login as pure functions ----
    rawList,    \* a list of raw inputs
    normOut,    \* [called, res]: res = normalize_inputs(rawList) once called
    renormOut,  \* [called, parsed, bare, derived]: the returned targets put through
                \* parse_twitch_url and normalize_inputs again, once called
    url,        \* one raw input
    parseOut,   \* [called, url, login]: parse_twitch_url(url) and parse_login(url) once called
    \* ---- token_needs_refresh ----
    config,     \* config.twitch: the credential record
    now,        \* Utc::now()
    needs,      \* [called, val]: val = token_needs_refresh(config) once called
    \* ---- auth::run, follow::run, list::run and the credential store ----
    cmd,        \* the subcommand: "auth" | "follow" | "list" | "unfollow" | "config", or
                \* the fetch function called on its own: "fetch_users" | "fetch_streams"
                \* ("idle" in the other parts)
    cpc,        \* position of the command
    fs,         \* the files of the credential store: [path, tmp], each a file content
    fs0,        \* the content of the store file when the command started
    acfg,       \* `config` of auth::run and of config::run
    fcfg,       \* `config` of follow::run / list::run
    clock,      \* Utc::now()
    refreshes,  \* number of calls of auth::run
    tokenCalls, \* number of POSTs sent to the token endpoint
    tokenOut,   \* the outcome of the last POST to the token endpoint ([some, val]) and
                \* the time `at` which auth::run read Utc::now() after it
    ares,       \* what auth::run returned
    renames,    \* number of successful renames onto the store file
    savedRec,   \* the record the last save_config call was given ([some, val])
    reqs,       \* the requests sent to the resolver endpoints, in order
    args,       \* FollowArgs.logins / ListArgs.status
    upstream,   \* what the service knows: recognized logins, live ids
    db,         \* the follow-list store: [exists, rows], rows the set of rows of table streamers
    cres,       \* what the command returned
    items,      \* the logins or ids the fetch function was given
    got,        \* `users` / `streams` of the fetch function: the response data so far
    upserted,   \* number of users the upsert loop of follow::run has stored
    apiOut,     \* the outcome of the last GET sent to the resolver endpoints ([some, val])
    unf,        \* unfollow::run: [k, removed, missing, seen] of the loop (k logins of the
                \* command line are done), the calls of delete_streamer_by_login so far
                \* and the number of runs of the command
    cargs       \* ConfigArgs

watchVars == <<streams, avail, wpc, logins, spawned, child, handles, joined, outcomes, failed, result>>
normVars == <<rawList, normOut, renormOut>>
parseVars == <<url, parseOut>>
tokenVars == <<config, now, needs>>
cliVars == <<cmd, cpc, fs, fs0, acfg, fcfg, clock, refreshes, tokenCalls, tokenOut, ares,
             renames, savedRec,
             reqs, args, upstream, db, cres, items, got, upserted, apiOut, unf, cargs>>
vars == <<watchVars, normVars, parseVars, tokenVars, cliVars>>

\* the value of a result variable before the function is called
NormPending == [called |-> FALSE, res |-> [ok |-> TRUE, val |-> <<>>]]
ParsePending == [called |-> FALSE, url |-> [some |-> FALSE, val |-> <<>>],
                 login |-> [ok |-> TRUE, val |-> <<>>]]
NeedsPending == [called |-> FALSE, val |-> FALSE]
RenormPending == [called |-> FALSE, parsed |-> <<>>,
                  bare |-> [ok |-> TRUE, val |-> <<>>], derived |-> [ok |-> TRUE, val |-> <<>>]]

\* ------------------------------------------------------------------------
\* Bounds
\* ------------------------------------------------------------------------
MaxInputs == 3      \* raw inputs of one watch invocation
MaxListLen == 3     \* raw inputs of one normalize_inputs call
MaxPathLen == 2     \* characters after the host of a generated URL
MaxTokLen == 2      \* characters of a generated access token
MaxTime == 3        \* instants 0..MaxTime

\* ------------------------------------------------------------------------
\* Strings
\* ------------------------------------------------------------------------
UpperSeq == <<"A","B","C","D","E","F","G","H","I","J","K","L","M",
              "N","O","P","Q","R","S","T","U","V","W","X","Y","Z">>
LowerSeq == <<"a","b","c","d","e","f","g","h","i","j","k","l","m",
              "n","o","p","q","r","s","t","u","v","w","x","y","z">>
DigitSeq == <<"0","1","2","3","4","5","6","7","8","9">>

Range(s) == {s[i] : i \in 1..Len(s)}

\* str::strip_prefix: Some(rest) when s starts with p, None otherwise
None == [some |-> FALSE, val |-> <<>>]
Some(v) == [some |-> TRUE, val |-> v]

starts_with(s, p) == Len(s) >= Len(p) /\ SubSeq(s, 1, Len(p)) = p

strip_prefix(s, p) ==
    IF starts_with(s, p) THEN Some(SubSeq(s, Len(p) + 1, Len(s))) ELSE None

\* str::contains(char)
contains(s, ch) == \E i \in 1..Len(s) : s[i] = ch

\* char::is_ascii_alphanumeric
is_ascii_alphanumeric(ch) == ch \in Range(UpperSeq) \cup Range(LowerSeq) \cup Range(DigitSeq)

\* str::to_lowercase (on the characters of the model: ASCII)
lower_char(ch) ==
    IF ch \in Range(UpperSeq)
    THEN LowerSeq[CHOOSE k \in 1..Len(UpperSeq) : UpperSeq[k] = ch]
    ELSE ch

to_lowercase(s) == [i \in 1..Len(s) |-> lower_char(s[i])]

\* the string literals of watch.rs
S_https == <<"h","t","t","p","s",":","/","/">>
S_http == <<"h","t","t","p",":","/","/">>
S_www == <<"w","w","w",".">>
S_host == <<"t","w","i","t","c","h",".","t","v","/">>

\* ------------------------------------------------------------------------
\* watch.rs: input normalization
\* ------------------------------------------------------------------------
is_valid_login(login) ==
    /\ login # <<>>
    /\ \A i \in 1..Len(login) : is_ascii_alphanumeric(login[i]) \/ login[i] = "_"

parse_twitch_url_nologincheck(input) ==
    LET s1 == strip_prefix(input, S_https)
        without_scheme == IF s1.some THEN s1 ELSE strip_prefix(input, S_http)
    IN  IF ~without_scheme.some THEN None
        ELSE
        LET w == strip_prefix(without_scheme.val, S_www)
            without_www == IF w.some THEN w.val ELSE without_scheme.val
            path == strip_prefix(without_www, S_host)
        IN  IF ~path.some THEN None
            ELSE IF path.val = <<>> \/ contains(path.val, "/") \/ contains(path.val, "?")
                    \/ contains(path.val, "#")
            THEN None
            ELSE Some(path.val)

\* a parser that does not know the www. form of the host
parse_twitch_url_nowww(input) ==
    LET s1 == strip_prefix(input, S_https)
        without_scheme == IF s1.some THEN s1 ELSE strip_prefix(input, S_http)
    IN  IF ~without_scheme.some THEN None
        ELSE
        LET path == strip_prefix(without_scheme.val, S_host)
        IN  IF ~path.some THEN None
            ELSE IF path.val = <<>> \/ contains(path.val, "/") \/ contains(path.val, "?")
                    \/ contains(path.val, "#")
            THEN None
            ELSE IF ~is_valid_login(path.val) THEN None
            ELSE Some(path.val)

parse_twitch_url(input) ==
    LET s1 == strip_prefix(input, S_https)
        without_scheme == IF s1.some THEN s1 ELSE strip_prefix(input, S_http)
    IN  IF ~without_scheme.some THEN None
        ELSE
        LET w == strip_prefix(without_scheme.val, S_www)
            without_www == IF w.some THEN w.val ELSE without_scheme.val
            path == strip_prefix(without_www, S_host)
        IN  IF ~path.some THEN None
            ELSE IF path.val = <<>> \/ contains(path.val, "/") \/ contains(path.val, "?")
                    \/ contains(path.val, "#")
            THEN None
            ELSE IF ~is_valid_login(path.val) THEN None
            ELSE Some(path.val)

\* run, line 29: format!("https://www.twitch.tv/{login}")
playback_url(login) == S_https \o S_www \o S_host \o login

\* Result<String>: [ok |-> TRUE, val |-> login] or [ok |-> FALSE, val |-> the input of the bail!]
Ok(v) == [ok |-> TRUE, val |-> v]
Err(v) == [ok |-> FALSE, val |-> v]

parse_login(input) ==
    LET u == parse_twitch_url(input)
    IN  IF u.some THEN Ok(u.val)
        ELSE IF is_valid_login(input) THEN Ok(input)
        ELSE Err(input)

\* the loop of normalize_inputs from input k on, with the HashSet `seen` and the Vec `logins`
RECURSIVE normalize_from(_, _, _, _)
normalize_from(inputs, k, seen, acc) ==
    IF k > Len(inputs) THEN Ok(acc)
    ELSE
    LET login == parse_login(inputs[k])
    IN  IF ~login.ok THEN login
        ELSE
        LET key == to_lowercase(login.val)
        IN  IF key \notin seen
            THEN normalize_from(inputs, k + 1, seen \cup {key}, Append(acc, key))
            ELSE normalize_from(inputs, k + 1, seen, acc)

RECURSIVE normalize_from_nodedup(_, _, _, _)
normalize_from_nodedup(inputs, k, seen, acc) ==
    IF k > Len(inputs) THEN Ok(acc)
    ELSE
    LET login == parse_login(inputs[k])
    IN  IF ~login.ok THEN login
        ELSE
        LET key == to_lowercase(login.val)
        IN  IF login.val \notin seen
            THEN normalize_from_nodedup(inputs, k + 1, seen \cup {login.val}, Append(acc, key))
            ELSE normalize_from_nodedup(inputs, k + 1, seen, acc)

normalize_inputs_nodedup(inputs) == normalize_from_nodedup(inputs, 1, {}, <<>>)

normalize_inputs(inputs) == normalize_from(inputs, 1, {}, <<>>)


\* ------------------------------------------------------------------------
\* watch.rs: run
\* ------------------------------------------------------------------------
Binaries == {"streamlink", "mpv"}

\* What executing `<name> --version` does: the process starts and exits with status
\* zero ("ok") or nonzero ("nonzero"), or it cannot be started because the binary is
\* not found ("notfound") or for another reason ("ioerror").
AvailStates == {"ok", "nonzero", "notfound", "ioerror"}

Running == [kind |-> "running"]

ensure_command_available_always_ok(name) == [kind |-> "Ok"]

\* Ok(_) => Ok(()): the exit status of the probe is not looked at
ensure_command_available(name) ==
    CASE avail[name] \in {"ok", "nonzero"} -> [kind |-> "Ok"]
      [] avail[name] = "notfound" ->
            [kind |-> "DependencyMissing", name |-> name, cause |-> "NotFound"]
      [] OTHER ->
            [kind |-> "DependencyMissing", name |-> name, cause |-> "ExecError"]

\* raw inputs of the watch runs
In_foo == <<"f","o","o">>
In_Foo == <<"F","o","o">>
In_urlBar == S_https \o S_host \o <<"B","a","r">>
In_baz == <<"b","a","z">>
In_bad == <<"b","-","z">>
WatchPool == {In_foo, In_Foo, In_urlBar, In_baz, In_bad}

Lists(S, n) == UNION {[1..k -> S] : k \in 1..n}

WatchIdle ==
    /\ streams = <<>> /\ avail = [b \in Binaries |-> "ok"] /\ wpc = "idle"
    /\ logins = <<>> /\ spawned = <<>> /\ child = <<>> /\ handles = <<>>
    /\ joined = 0 /\ outcomes = <<>> /\ failed = <<>> /\ result = Running

NormIdle == rawList = <<>> /\ normOut = NormPending /\ renormOut = RenormPending
ParseIdle == url = <<>> /\ parseOut = ParsePending
TokenIdle ==
    /\ config = [client_id |-> None, client_secret |-> None,
                 access_token |-> None, expires_at |-> [some |-> FALSE, val |-> 0]]
    /\ now = 0 /\ needs = NeedsPending

\* Option<DateTime<Utc>> None; instants are integers
NoTime == [some |-> FALSE, val |-> 0]

\* Config::default()
DefaultConfig == [client_id |-> None, client_secret |-> None,
                  access_token |-> None, expires_at |-> NoTime]

\* file contents: no file, an empty file, a prefix of the JSON text, the JSON text of rec
Absent == [kind |-> "absent", rec |-> DefaultConfig]
EmptyFile == [kind |-> "empty", rec |-> DefaultConfig]
Partial == [kind |-> "partial", rec |-> DefaultConfig]
Json(rec) == [kind |-> "json", rec |-> rec]

\* no POST sent yet
NoOutcome == [some |-> FALSE, at |-> 0,
              val |-> [kind |-> "transport", status |-> 0, parsed |-> FALSE, ttl |-> 0,
                       body |-> <<>>]]

\* a command without arguments, a service that knows nobody, no database file
NoArgs == [logins |-> <<>>, status |-> "Online"]
NoUpstream == [known |-> {}, live |-> {}]
NoDb == [exists |-> FALSE, rows |-> {}]

\* no GET sent yet
NoApiOutcome == [some |-> FALSE,
                 val |-> [kind |-> "transport", status |-> 0, parsed |-> FALSE, body |-> <<>>]]

\* unfollow::run before its loop (lines 20-22), no call of the delete yet
NoUnf == [k |-> 0, removed |-> 0, missing |-> <<>>, seen |-> {}, calls |-> <<>>, runs |-> 1]

\* a config command without flags
NoConfigArgs == [client_id |-> None, client_secret |-> None, access_token |-> None,
                 expires_at |-> None, show |-> FALSE]

CliIdle ==
    /\ cmd = "idle" /\ cpc = "idle"
    /\ fs = [path |-> Absent, tmp |-> Absent] /\ fs0 = Absent
    /\ acfg = DefaultConfig /\ fcfg = DefaultConfig /\ clock = 0
    /\ refreshes = 0 /\ tokenCalls = 0 /\ renames = 0
    /\ tokenOut = NoOutcome /\ ares = Running
    /\ savedRec = [some |-> FALSE, val |-> DefaultConfig]
    /\ reqs = <<>> /\ args = NoArgs /\ upstream = NoUpstream /\ db = NoDb /\ cres = Running
    /\ items = <<>> /\ got = <<>> /\ upserted = 0 /\ apiOut = NoApiOutcome
    /\ unf = NoUnf /\ cargs = NoConfigArgs

\* clap: `required = true, num_args = 1..`, so streams is never empty
InitWatch ==
    /\ streams \in Lists(WatchPool, MaxInputs)
    /\ avail \in [Binaries -> AvailStates]
    /\ wpc = "preflight_streamlink"
    /\ logins = <<>> /\ spawned = <<>> /\ child = <<>> /\ handles = <<>>
    /\ joined = 0 /\ outcomes = <<>> /\ failed = <<>> /\ result = Running
    /\ NormIdle /\ ParseIdle /\ TokenIdle /\ CliIdle

\* run, line 19: ensure_command_available("streamlink")?
PreflightStreamlink ==
    /\ wpc = "preflight_streamlink"
    /\ LET r == ensure_command_available("streamlink")
       IN  IF r.kind = "Ok"
           THEN wpc' = "preflight_mpv" /\ result' = result
           ELSE wpc' = "done" /\ result' = r
    /\ UNCHANGED <<streams, avail, logins, spawned, child, handles, joined, outcomes, failed>>
    /\ UNCHANGED <<normVars, parseVars, tokenVars>>
    /\ UNCHANGED cliVars

\* run, line 20: ensure_command_available("mpv")?
PreflightMpv ==
    /\ wpc = "preflight_mpv"
    /\ LET r == ensure_command_available("mpv")
       IN  IF r.kind = "Ok"
           THEN wpc' = "normalize" /\ result' = result
           ELSE wpc' = "done" /\ result' = r
    /\ UNCHANGED <<streams, avail, logins, spawned, child, handles, joined, outcomes, failed>>
    /\ UNCHANGED <<normVars, parseVars, tokenVars>>
    /\ UNCHANGED cliVars

\* run, lines 22-25: normalize_inputs(&args.streams)?, then the is_empty() bail
Normalize ==
    /\ wpc = "normalize"
    /\ LET r == normalize_inputs(streams)
       IN  IF ~r.ok
           THEN /\ result' = [kind |-> "InvalidInput", input |-> r.val]
                /\ wpc' = "done"
                /\ UNCHANGED <<logins, spawned, child>>
           ELSE IF r.val = <<>>
           THEN /\ result' = [kind |-> "NoValidTargets"]
                /\ wpc' = "done"
                /\ UNCHANGED <<logins, spawned, child>>
           ELSE /\ logins' = r.val
                /\ spawned' = [i \in 1..Len(r.val) |-> "none"]
                /\ child' = [i \in 1..Len(r.val) |-> "none"]
                /\ wpc' = "spawn"
                /\ result' = result
    /\ UNCHANGED <<streams, avail, handles, joined, outcomes, failed>>
    /\ UNCHANGED <<normVars, parseVars, tokenVars>>
    /\ UNCHANGED cliVars

\* a spawn loop that starts a target only when the children before it have exited
Spawn_after_exit ==
    /\ wpc = "spawn"
    /\ \A j \in 1..Len(handles) : child[j] # "running"
    /\ LET i == Len(handles) + 1
       IN  \E started \in BOOLEAN :
             IF started
             THEN /\ spawned' = [spawned EXCEPT ![i] = "ok"]
                  /\ child' = [child EXCEPT ![i] = "running"]
                  /\ handles' = Append(handles, i)
                  /\ wpc' = IF i = Len(logins) THEN "join" ELSE "spawn"
                  /\ result' = result
             ELSE /\ spawned' = [spawned EXCEPT ![i] = "failed"]
                  /\ result' = [kind |-> "SpawnError", login |-> logins[i]]
                  /\ wpc' = "done"
                  /\ UNCHANGED <<child, handles>>
    /\ UNCHANGED <<streams, avail, logins, joined, outcomes, failed>>
    /\ UNCHANGED <<normVars, parseVars, tokenVars>>
    /\ UNCHANGED cliVars

\* run, lines 28-49: one iteration of the spawn loop. cmd.spawn() either starts the
\* child, whose handle is pushed, or fails, and the `?` returns from run.
Spawn ==
    /\ wpc = "spawn"
    /\ LET i == Len(handles) + 1
       IN  \E started \in BOOLEAN :
             IF started
             THEN /\ spawned' = [spawned EXCEPT ![i] = "ok"]
                  /\ child' = [child EXCEPT ![i] = "running"]
                  /\ handles' = Append(handles, i)
                  /\ wpc' = IF i = Len(logins) THEN "join" ELSE "spawn"
                  /\ result' = result
             ELSE /\ spawned' = [spawned EXCEPT ![i] = "failed"]
                  /\ result' = [kind |-> "SpawnError", login |-> logins[i]]
                  /\ wpc' = "done"
                  /\ UNCHANGED <<child, handles>>
    /\ UNCHANGED <<streams, avail, logins, joined, outcomes, failed>>
    /\ UNCHANGED <<normVars, parseVars, tokenVars>>
    /\ UNCHANGED cliVars

\* The child of target i terminates and child.wait() of its task (lines 45-48)
\* completes: Ok(exit) with exit status zero or nonzero, or Err(err). A child is an
\* OS process of its own: it also terminates after run has returned.
ChildExit(i) ==
    /\ i \in 1..Len(child)
    /\ child[i] = "running"
    /\ \E st \in {"exit0", "exit1", "waiterr"} : child' = [child EXCEPT ![i] = st]
    /\ UNCHANGED <<streams, avail, wpc, logins, spawned, handles, joined, outcomes, failed, result>>
    /\ UNCHANGED <<normVars, parseVars, tokenVars>>
    /\ UNCHANGED cliVars

\* a join loop whose handle.await completes while the child is still running
Join_without_wait ==
    /\ wpc = "join"
    /\ LET j == joined + 1
           t == handles[j]
           st == child[t]
           failed1 == IF st = "exit0" THEN failed
                      ELSE Append(failed, [login |-> logins[t], why |-> st])
       IN  /\ joined' = j
           /\ outcomes' = Append(outcomes, [login |-> logins[t], outcome |-> st])
           /\ failed' = failed1
           /\ IF j = Len(handles)
              THEN /\ wpc' = "done"
                   /\ result' = IF failed1 = <<>> THEN [kind |-> "Ok"]
                                ELSE [kind |-> "Failed", failed |-> failed1]
              ELSE /\ wpc' = wpc /\ result' = result
    /\ UNCHANGED <<streams, avail, logins, spawned, child, handles>>
    /\ UNCHANGED <<normVars, parseVars, tokenVars>>
    /\ UNCHANGED cliVars

\* run, lines 52-68: handle.await of the next handle, the match on its status, and
\* after the last handle the bail! or Ok(()). handle.await completes when the task
\* has the status of its child; the task neither panics nor is aborted, so the
\* JoinError of line 53 does not occur.
Join ==
    /\ wpc = "join"
    /\ LET j == joined + 1
           t == handles[j]
           st == child[t]
           failed1 == IF st = "exit0" THEN failed
                      ELSE Append(failed, [login |-> logins[t], why |-> st])
       IN  /\ st # "running"
           /\ joined' = j
           /\ outcomes' = Append(outcomes, [login |-> logins[t], outcome |-> st])
           /\ failed' = failed1
           /\ IF j = Len(handles)
              THEN /\ wpc' = "done"
                   /\ result' = IF failed1 = <<>> THEN [kind |-> "Ok"]
                                ELSE [kind |-> "Failed", failed |-> failed1]
              ELSE /\ wpc' = wpc /\ result' = result
    /\ UNCHANGED <<streams, avail, logins, spawned, child, handles>>
    /\ UNCHANGED <<normVars, parseVars, tokenVars>>
    /\ UNCHANGED cliVars

NextWatch ==
    \/ PreflightStreamlink
    \/ PreflightMpv
    \/ Normalize
    \/ Spawn
    \/ \E i \in 1..MaxInputs + 1 : ChildExit(i)
    \/ Join

SpecWatch == InitWatch /\ [][NextWatch]_vars

\* watch::run on the tokio runtime: a handle.await whose task has completed is
\* resumed by the runtime, so the join loop goes on whenever it can. Nothing is
\* assumed about the children: a child may run forever.
SpecWatchLive == SpecWatch /\ WF_vars(Join)


\* ------------------------------------------------------------------------
\* normalize_inputs applied to bounded lists of raw inputs
\* ------------------------------------------------------------------------
Names == {<<"f","o","o">>, <<"F","o","o">>, <<"F","O","O">>, <<"b","_","1">>}
Forms == {<<>>, S_https \o S_host, S_http \o S_www \o S_host}
NormPool == {f \o n : f \in Forms, n \in Names} \cup {In_bad, S_https \o S_host \o In_bad}

InitNormalize ==
    /\ rawList \in Lists(NormPool, MaxListLen)
    /\ normOut = NormPending /\ renormOut = RenormPending
    /\ WatchIdle /\ ParseIdle /\ TokenIdle /\ CliIdle

ApplyNormalize ==
    /\ normOut = NormPending
    /\ normOut' = [called |-> TRUE, res |-> normalize_inputs(rawList)]
    /\ UNCHANGED <<rawList, renormOut, watchVars, parseVars, tokenVars>>
    /\ UNCHANGED cliVars

\* The targets normalize_inputs returned are given back to it, once as they are
\* and once as the playback URLs run derives from them, and each playback URL is
\* given to parse_twitch_url.
ApplyRenormalize ==
    /\ normOut.called /\ normOut.res.ok
    /\ renormOut = RenormPending
    /\ LET out == normOut.res.val
           urls == [a \in 1..Len(out) |-> playback_url(out[a])]
       IN  renormOut' = [called |-> TRUE,
                         parsed |-> [a \in 1..Len(out) |-> parse_twitch_url(urls[a])],
                         bare |-> normalize_inputs(out),
                         derived |-> normalize_inputs(urls)]
    /\ UNCHANGED <<rawList, normOut, watchVars, parseVars, tokenVars>>
    /\ UNCHANGED cliVars

NextNormalize == ApplyNormalize \/ ApplyRenormalize

SpecNormalize == InitNormalize /\ [][NextNormalize]_vars

\* ------------------------------------------------------------------------
\* parse_twitch_url and parse_login applied to bounded raw inputs
\* ------------------------------------------------------------------------
S_ftp == <<"f","t","p",":","/","/">>
S_otherhost == <<"e","x","a","m","p","l","e",".","c","o","m","/">>
S_hostnoslash == <<"t","w","i","t","c","h",".","t","v">>
PathAlphabet == {"F", "o", "_", "7", "/", "?", "#", "-"}
Paths == UNION {[1..k -> PathAlphabet] : k \in 0..MaxPathLen}
UrlPool == {sc \o w \o h \o pa :
                sc \in {<<>>, S_http, S_https, S_ftp},
                w \in {<<>>, S_www},
                h \in {<<>>, S_host, S_otherhost, S_hostnoslash},
                pa \in Paths}

InitParse ==
    /\ url \in UrlPool
    /\ parseOut = ParsePending
    /\ WatchIdle /\ NormIdle /\ TokenIdle /\ CliIdle

ApplyParse ==
    /\ parseOut = ParsePending
    /\ parseOut' = [called |-> TRUE, url |-> parse_twitch_url(url), login |-> parse_login(url)]
    /\ UNCHANGED <<url, watchVars, normVars, tokenVars>>
    /\ UNCHANGED cliVars

NextParse == ApplyParse

SpecParse == InitParse /\ [][NextParse]_vars

\* ------------------------------------------------------------------------
\* follow.rs: token_needs_refresh
\* ------------------------------------------------------------------------
\* char::is_whitespace, on the characters of the model
Whitespace == {" ", "\t", "\n"}

\* str::trim
RECURSIVE trim_start(_)
trim_start(s) ==
    IF s # <<>> /\ Head(s) \in Whitespace THEN trim_start(Tail(s)) ELSE s

RECURSIVE trim_end(_)
trim_end(s) ==
    IF s # <<>> /\ s[Len(s)] \in Whitespace THEN trim_end(SubSeq(s, 1, Len(s) - 1)) ELSE s

trim(s) == trim_end(trim_start(s))

\* a refresh on every call
token_needs_refresh_always(cfg, t) == TRUE

\* a token without an expiry is trusted
token_needs_refresh_noexpiry(cfg, t) ==
    LET token == IF cfg.access_token.some /\ trim(cfg.access_token.val) # <<>>
                 THEN Some(trim(cfg.access_token.val)) ELSE None
    IN  IF token.some /\ cfg.expires_at.some THEN t >= cfg.expires_at.val
        ELSE ~token.some

token_needs_refresh_gt(cfg, t) ==
    LET token == IF cfg.access_token.some /\ trim(cfg.access_token.val) # <<>>
                 THEN Some(trim(cfg.access_token.val)) ELSE None
    IN  IF token.some /\ cfg.expires_at.some THEN t > cfg.expires_at.val ELSE TRUE

\* t is the value of Utc::now() read by the match arm
token_needs_refresh(cfg, t) ==
    LET token == IF cfg.access_token.some /\ trim(cfg.access_token.val) # <<>>
                 THEN Some(trim(cfg.access_token.val)) ELSE None
    IN  IF token.some /\ cfg.expires_at.some THEN t >= cfg.expires_at.val ELSE TRUE

TokenAlphabet == {" ", "t"}
Tokens == {None} \cup {Some(tk) : tk \in UNION {[1..k -> TokenAlphabet] : k \in 0..MaxTokLen}}
Expiries == {NoTime} \cup {Some(e) : e \in 0..MaxTime}
S_id == <<"i","d">>
S_secret == <<"s","e","c">>

InitToken ==
    /\ config \in [client_id : {Some(S_id)}, client_secret : {Some(S_secret)},
                   access_token : Tokens, expires_at : Expiries]
    /\ now = 0
    /\ needs = NeedsPending
    /\ WatchIdle /\ NormIdle /\ ParseIdle /\ CliIdle

\* the clock advances until the predicate reads it
Tick ==
    /\ needs = NeedsPending
    /\ now < MaxTime
    /\ now' = now + 1
    /\ UNCHANGED <<config, needs, watchVars, normVars, parseVars>>
    /\ UNCHANGED cliVars

CheckToken ==
    /\ needs = NeedsPending
    /\ needs' = [called |-> TRUE, val |-> token_needs_refresh(config, now)]
    /\ UNCHANGED <<config, now, watchVars, normVars, parseVars>>
    /\ UNCHANGED cliVars

NextToken == Tick \/ CheckToken

SpecToken == InitToken /\ [][NextToken]_vars


\* ------------------------------------------------------------------------
\* config.rs: the credential store
\* ------------------------------------------------------------------------
\* load_config on the store file f: no file gives the defaults; a file that is not
\* the complete JSON text fails to parse. The JSON text of a record parses back to
\* the record (Option<String> and DateTime<Utc> round-trip through serde_json).
load_config(f) ==
    IF f.kind = "absent" THEN Ok(DefaultConfig)
    ELSE IF f.kind = "json" THEN Ok(f.rec)
    ELSE Err(DefaultConfig)

\* path.with_extension("json.tmp"): the file save_config writes the JSON text to
tmp_path_is_path == "path"

tmp_path == "tmp"

\* ------------------------------------------------------------------------
\* auth.rs
\* ------------------------------------------------------------------------
\* .as_deref().map(str::trim).filter(|value| !value.is_empty())
trimmed_nonempty(opt) ==
    IF opt.some /\ trim(opt.val) # <<>> THEN Some(trim(opt.val)) ELSE None

credentials_idonly(c) ==
    LET client_id == trimmed_nonempty(c.client_id)
        client_secret == trimmed_nonempty(c.client_secret)
        missing == IF ~client_id.some THEN <<"client ID">> ELSE <<>>
    IN  [ok |-> missing = <<>>, missing |-> missing,
         id |-> client_id.val, secret |-> client_secret.val]

credentials(c) ==
    LET client_id == trimmed_nonempty(c.client_id)
        client_secret == trimmed_nonempty(c.client_secret)
        missing == (IF ~client_id.some THEN <<"client ID">> ELSE <<>>)
                   \o (IF ~client_secret.some THEN <<"client secret">> ELSE <<>>)
    IN  [ok |-> missing = <<>>, missing |-> missing,
         id |-> client_id.val, secret |-> client_secret.val]

\* StatusCode::is_success
is_success(status) == status >= 200 /\ status <= 299

map_auth_error_no429(status, body) ==
    CASE status = 400 -> [kind |-> "InvalidClientId"]
      [] status = 403 -> [kind |-> "InvalidClientSecret"]
      [] OTHER -> [kind |-> "UnexpectedAuthResponse", status |-> status, body |-> body]

map_auth_error(status, body) ==
    CASE status = 400 -> [kind |-> "InvalidClientId"]
      [] status = 403 -> [kind |-> "InvalidClientSecret"]
      [] status = 429 -> [kind |-> "RateLimited"]
      [] OTHER -> [kind |-> "UnexpectedAuthResponse", status |-> status, body |-> body]

\* what the service may answer
Statuses == {200, 204, 400, 401, 403, 404, 429, 500}
Bodies == {<<"b">>}
TTLs == {0, 2}
S_newtoken == <<"n">>

\* the outcomes of the POST to the token endpoint: the request is not answered, or
\* it is answered with a status and a body that is or is not a TokenResponse
TokenOutcomes ==
    {[kind |-> "transport", status |-> 0, parsed |-> FALSE, ttl |-> 0, body |-> <<>>]}
    \cup {[kind |-> "http", status |-> st, parsed |-> pa, ttl |-> t, body |-> b] :
            st \in Statuses, pa \in BOOLEAN, t \in TTLs, b \in Bodies}

\* the expiry is the TTL alone, not counted from now
refreshed_ttl_only(c, token, t, expires_in) ==
    [c EXCEPT !.access_token = Some(token), !.expires_at = Some(expires_in)]

\* the token and the expiry are put into a new record
refreshed_new_record(c, token, t, expires_in) ==
    [DefaultConfig EXCEPT !.access_token = Some(token), !.expires_at = Some(t + expires_in)]

\* auth::run, lines 65-67: expires_at = Utc::now() + Duration::seconds(expires_in);
\* the token and the expiry are set in the loaded config
refreshed(c, token, t, expires_in) ==
    [c EXCEPT !.access_token = Some(token), !.expires_at = Some(t + expires_in)]

\* the command returns r
Return(r) == cpc' = "done" /\ cres' = r

\* mask_value: a secret that is set is printed as eight asterisks
S_mask == <<"*","*","*","*","*","*","*","*">>
mask_value(value) == IF value.some THEN Some(S_mask) ELSE None

\* print_config: what is printed for config
print_config(c) ==
    [c EXCEPT !.client_secret = mask_value(c.client_secret),
              !.access_token = mask_value(c.access_token)]

\* auth::run returns the error r, which its caller returns too (`.await?`); in
\* config::run it is save_config that returns r (line 81)
AuthFail(r) == ares' = (IF cmd = "config" THEN ares ELSE r) /\ Return(r)

\* auth::run returns Ok(()); follow and list go on with the reload of the config.
\* config::run, lines 82-86: after save_config the config is printed when --show
\* is given, and run returns Ok(())
AuthOk ==
    IF cmd = "config"
    THEN /\ ares' = ares
         /\ Return([kind |-> "Ok", printed |-> cargs.show, shown |-> print_config(acfg)])
    ELSE /\ ares' = [kind |-> "Ok"]
         /\ IF cmd = "auth" THEN Return([kind |-> "Ok"]) ELSE cpc' = "reload" /\ cres' = cres

\* auth::run, lines 28-29: load_config()? and credentials(&config)?
AuthStart ==
    /\ cpc = "auth_start"
    /\ LET l == load_config(fs.path)
           cr == credentials(l.val)
       IN  IF ~l.ok THEN AuthFail([kind |-> "ConfigParseError"]) /\ acfg' = acfg
           ELSE IF ~cr.ok
           THEN AuthFail([kind |-> "MissingCredentials", missing |-> cr.missing])
                /\ acfg' = l.val
           ELSE cpc' = "auth_send" /\ cres' = cres /\ ares' = ares /\ acfg' = l.val
    /\ refreshes' = refreshes + 1
    /\ UNCHANGED <<cmd, fs, fs0, fcfg, clock, tokenCalls, tokenOut, renames, savedRec,
                   reqs, args, upstream, db, items, got, upserted, apiOut>>
    /\ UNCHANGED <<unf, cargs>>
    /\ UNCHANGED <<watchVars, normVars, parseVars, tokenVars>>

\* auth::run, lines 43-67: the POST, the status check, the parse of the
\* TokenResponse and the new token and expiry put into config
AuthSend ==
    /\ cpc = "auth_send"
    /\ tokenCalls' = tokenCalls + 1
    /\ \E out \in TokenOutcomes :
         /\ tokenOut' = [some |-> TRUE, at |-> clock, val |-> out]
         /\ IF out.kind = "transport"
            THEN AuthFail([kind |-> "TransportError"]) /\ UNCHANGED <<acfg, savedRec>>
            ELSE IF ~is_success(out.status)
            THEN AuthFail(map_auth_error(out.status, out.body)) /\ UNCHANGED <<acfg, savedRec>>
            ELSE IF ~out.parsed
            THEN AuthFail([kind |-> "TokenParseError"]) /\ UNCHANGED <<acfg, savedRec>>
            ELSE LET c == refreshed(acfg, S_newtoken, clock, out.ttl)
                 IN  /\ acfg' = c
                     /\ savedRec' = [some |-> TRUE, val |-> c]
                     /\ cpc' = "save_create" /\ cres' = cres /\ ares' = ares
    /\ UNCHANGED <<cmd, fs, fs0, fcfg, clock, refreshes, renames, reqs, args, upstream, db, items, got, upserted, apiOut>>
    /\ UNCHANGED <<unf, cargs>>
    /\ UNCHANGED <<watchVars, normVars, parseVars, tokenVars>>

SaveFrame ==
    /\ UNCHANGED <<cmd, fs0, acfg, fcfg, clock, refreshes, tokenCalls, tokenOut, savedRec,
                   reqs, args, upstream, db, items, got, upserted, apiOut>>
    /\ UNCHANGED <<unf, cargs>>
    /\ UNCHANGED <<watchVars, normVars, parseVars, tokenVars>>

\* save_config, lines 134-144: create_dir_all, set_dir_permissions, File::create(tmp)
SaveCreate ==
    /\ cpc = "save_create"
    /\ \E ok \in BOOLEAN :
         IF ok
         THEN fs' = [fs EXCEPT ![tmp_path] = EmptyFile] /\ cpc' = "save_write" /\ cres' = cres /\ ares' = ares
         ELSE fs' = fs /\ AuthFail([kind |-> "SaveError", step |-> "create"])
    /\ renames' = renames
    /\ SaveFrame

\* save_config, lines 145-146: write_all; a failed write leaves a prefix of the text
SaveWrite ==
    /\ cpc = "save_write"
    /\ \E ok \in BOOLEAN :
         IF ok
         THEN fs' = [fs EXCEPT ![tmp_path] = Json(acfg)] /\ cpc' = "save_sync" /\ cres' = cres /\ ares' = ares
         ELSE fs' = [fs EXCEPT ![tmp_path] = Partial]
              /\ AuthFail([kind |-> "SaveError", step |-> "write"])
    /\ renames' = renames
    /\ SaveFrame

\* save_config, line 147: sync_all
SaveSync ==
    /\ cpc = "save_sync"
    /\ \E ok \in BOOLEAN :
         IF ok THEN cpc' = "save_rename" /\ cres' = cres /\ ares' = ares
         ELSE AuthFail([kind |-> "SaveError", step |-> "sync"])
    /\ UNCHANGED <<fs, renames>>
    /\ SaveFrame

\* a rename that reports success and moves nothing
renamed_nothing(f, from, to) == f

\* fs::rename(from, to) succeeding: `to` has the content of `from`, `from` is gone
renamed(f, from, to) ==
    IF from = to THEN f ELSE [[f EXCEPT ![to] = f[from]] EXCEPT ![from] = Absent]

\* save_config, lines 149-158: the first rename; when it fails, path.exists()
\* decides between the remove-and-retry branch and the error
SaveRename ==
    /\ cpc = "save_rename"
    /\ \E ok \in BOOLEAN :
         IF ok
         THEN /\ fs' = renamed(fs, tmp_path, "path")
              /\ renames' = renames + 1
              /\ cpc' = "save_perms" /\ cres' = cres /\ ares' = ares
         ELSE /\ UNCHANGED <<fs, renames>>
              /\ IF fs.path.kind # "absent"
                 THEN cpc' = "save_remove" /\ cres' = cres /\ ares' = ares
                 ELSE AuthFail([kind |-> "SaveError", step |-> "rename"])
    /\ SaveFrame

\* save_config, lines 151-152: fs::remove_file(path)
SaveRemove ==
    /\ cpc = "save_remove"
    /\ \E ok \in BOOLEAN :
         IF ok
         THEN fs' = [fs EXCEPT !.path = Absent] /\ cpc' = "save_rename2" /\ cres' = cres /\ ares' = ares
         ELSE fs' = fs /\ AuthFail([kind |-> "SaveError", step |-> "remove"])
    /\ renames' = renames
    /\ SaveFrame

\* save_config, lines 153-154: the second rename
SaveRename2 ==
    /\ cpc = "save_rename2"
    /\ \E ok \in BOOLEAN :
         IF ok
         THEN /\ fs' = renamed(fs, tmp_path, "path")
              /\ renames' = renames + 1
              /\ cpc' = "save_perms" /\ cres' = cres /\ ares' = ares
         ELSE UNCHANGED <<fs, renames>> /\ AuthFail([kind |-> "SaveError", step |-> "rename2"])
    /\ SaveFrame

\* save_config, line 160: set_file_permissions, and the return of auth::run
\* (lines 70-83)
SavePerms ==
    /\ cpc = "save_perms"
    /\ \E ok \in BOOLEAN :
         IF ~ok THEN AuthFail([kind |-> "SaveError", step |-> "perms"])
         ELSE AuthOk
    /\ UNCHANGED <<fs, renames>>
    /\ SaveFrame

\* time passes while the command runs
CliTick ==
    /\ cpc \notin {"idle", "done"}
    /\ clock < MaxTime
    /\ clock' = clock + 1
    /\ UNCHANGED <<cmd, cpc, fs, fs0, acfg, fcfg, refreshes, tokenCalls, tokenOut, ares,
                   renames, savedRec, reqs, args, upstream, db, cres, items, got, upserted, apiOut>>
    /\ UNCHANGED <<unf, cargs>>
    /\ UNCHANGED <<watchVars, normVars, parseVars, tokenVars>>

\* ------------------------------------------------------------------------
\* twitch.rs: the batch requests to /users and /streams
\* ------------------------------------------------------------------------

\* slice::chunks_exact: a short last chunk is dropped
RECURSIVE chunks_exact(_, _)
chunks_exact(list, size) ==
    IF Len(list) < size THEN <<>>
    ELSE <<SubSeq(list, 1, size)>> \o chunks_exact(SubSeq(list, size + 1, Len(list)), size)

\* slice::chunks: consecutive chunks of `size` elements, the last one may be shorter
RECURSIVE chunks(_, _)
chunks(list, size) ==
    IF list = <<>> THEN <<>>
    ELSE IF Len(list) <= size THEN <<list>>
    ELSE <<SubSeq(list, 1, size)>> \o chunks(SubSeq(list, size + 1, Len(list)), size)

\* which fetch function the command calls
fetch_kind == IF cmd \in {"follow", "fetch_users"} THEN "users" ELSE "streams"

\* `logins.chunks(100)` of fetch_users_by_login, `ids.chunks(100)` of fetch_streams_by_user_ids
batches(kind, list) == IF kind = "users" THEN chunks(list, 100) ELSE chunks(list, 100)

\* map_api_error without the 401 arm
map_api_error_no401(status, body) ==
    CASE status = 403 -> [kind |-> "Forbidden"]
      [] status = 429 -> [kind |-> "RateLimited"]
      [] OTHER -> [kind |-> "UnexpectedApiResponse", status |-> status, body |-> body]

\* map_api_error
map_api_error(status, body) ==
    CASE status = 401 -> [kind |-> "Unauthorized"]
      [] status = 403 -> [kind |-> "Forbidden"]
      [] status = 429 -> [kind |-> "RateLimited"]
      [] OTHER -> [kind |-> "UnexpectedApiResponse", status |-> status, body |-> body]

\* what the service may answer to one GET: no answer, or a status with a body
\* that parses or not
ApiOutcomes ==
    {[kind |-> "transport", status |-> 0, parsed |-> FALSE, body |-> <<>>]}
    \cup {[kind |-> "http", status |-> st, parsed |-> pa, body |-> b] :
            st \in Statuses, pa \in BOOLEAN, b \in Bodies}

\* the TwitchUser of a recognized login, the TwitchStream of a live id
S_hash == <<"#">>
TwitchUser(l) == [id |-> S_hash \o l, login |-> l, display_name |-> l]
TwitchStream(id) == [user_id |-> id, game_name |-> <<"g">>]

\* UsersResponse.data for one batch: one user per recognized login, matched
\* without regard to case
users_data(batch) ==
    LET lower == [k \in 1..Len(batch) |-> to_lowercase(batch[k])]
        first(k) == lower[k] \in upstream.known /\ \A j \in 1..(k - 1) : lower[j] # lower[k]
        ks == SelectSeq([k \in 1..Len(batch) |-> k], first)
    IN  [i \in 1..Len(ks) |-> TwitchUser(lower[ks[i]])]

\* StreamsResponse.data for one batch: one stream per live id
streams_data(batch) ==
    LET first(k) == batch[k] \in upstream.live /\ \A j \in 1..(k - 1) : batch[j] # batch[k]
        ks == SelectSeq([k \in 1..Len(batch) |-> k], first)
    IN  [i \in 1..Len(ks) |-> TwitchStream(batch[ks[i]])]

response_data(kind, batch) ==
    IF kind = "users" THEN users_data(batch) ELSE streams_data(batch)

\* the fetch function returns Ok(got) to its caller
FetchReturn ==
    IF cmd = "follow" THEN cpc' = "follow_connect" /\ cres' = cres
    ELSE IF cmd = "list" THEN cpc' = "list_rows" /\ cres' = cres
    ELSE Return([kind |-> "Ok"])

\* fetch_users_by_login, lines 52-54, fetch_streams_by_user_ids, lines 76-78:
\* an empty list returns Ok(Vec::new()) without any request
FetchCall ==
    /\ cpc = "fetch_call"
    /\ IF items = <<>> THEN FetchReturn ELSE cpc' = "fetch" /\ cres' = cres
    /\ UNCHANGED <<cmd, fs, fs0, acfg, fcfg, clock, refreshes, tokenCalls, tokenOut, ares,
                   renames, savedRec, reqs, args, upstream, db, items, got, upserted, apiOut>>
    /\ UNCHANGED <<unf, cargs>>
    /\ UNCHANGED <<watchVars, normVars, parseVars, tokenVars>>

\* one turn of the loop over the batches (lines 62-66, 86-90): get_twitch sends
\* the GET with the Bearer token and the Client-ID (lines 166-175), maps a
\* non-2xx status (lines 177-181), parses the body (line 183); the data is
\* appended; after the last batch the function returns
FetchBatch ==
    /\ cpc = "fetch"
    /\ LET bs == batches(fetch_kind, items)
           i == Len(reqs) + 1
       IN  /\ i <= Len(bs)
           /\ reqs' = Append(reqs, [kind |-> fetch_kind, items |-> bs[i],
                                    token |-> trimmed_nonempty(fcfg.access_token).val,
                                    client_id |-> trimmed_nonempty(fcfg.client_id).val])
           /\ \E out \in ApiOutcomes :
                /\ apiOut' = [some |-> TRUE, val |-> out]
                /\ IF out.kind = "transport"
                   THEN Return([kind |-> "ApiTransportError"]) /\ got' = got
                   ELSE IF ~is_success(out.status)
                   THEN Return(map_api_error(out.status, out.body)) /\ got' = got
                   ELSE IF ~out.parsed
                   THEN Return([kind |-> "ApiParseError"]) /\ got' = got
                   ELSE /\ got' = got \o response_data(fetch_kind, bs[i])
                        /\ IF i < Len(bs) THEN cpc' = "fetch" /\ cres' = cres
                           ELSE FetchReturn
    /\ UNCHANGED <<cmd, fs, fs0, acfg, fcfg, clock, refreshes, tokenCalls, tokenOut, ares,
                   renames, savedRec, args, upstream, db, items, upserted>>
    /\ UNCHANGED <<unf, cargs>>
    /\ UNCHANGED <<watchVars, normVars, parseVars, tokenVars>>

\* ------------------------------------------------------------------------
\* follow::run and list::run
\* ------------------------------------------------------------------------

\* db::connect: the step at which it fails, or "ok"; the database file exists
\* once SqlitePool::connect_with (create_if_missing) has run
ConnectOutcomes == {"dir", "open", "schema", "perms", "ok"}
connect_creates(step) == step \in {"schema", "perms", "ok"}

\* db::upsert_streamer: INSERT ... ON CONFLICT(id) DO UPDATE
upsert_streamer(rows, user) ==
    {r \in rows : r.id # user.id}
    \cup {[id |-> user.id, name |-> user.login, display_name |-> user.display_name]}

\* the byte order of the characters of a login
CharOrder == DigitSeq \o UpperSeq \o <<"_">> \o LowerSeq
char_rank(ch) == CHOOSE k \in 1..Len(CharOrder) : CharOrder[k] = ch

RECURSIVE str_le(_, _)
str_le(a, b) ==
    IF a = <<>> THEN TRUE
    ELSE IF b = <<>> THEN FALSE
    ELSE IF Head(a) = Head(b) THEN str_le(Tail(a), Tail(b))
    ELSE char_rank(Head(a)) < char_rank(Head(b))

\* db::list_streamers: the rows sorted by login
RECURSIVE list_streamers(_)
list_streamers(rows) ==
    IF rows = {} THEN <<>>
    ELSE LET m == CHOOSE r \in rows : \A q \in rows : str_le(r.name, q.name)
         IN  <<m>> \o list_streamers(rows \ {m})

\* follow.rs, lines 74-80: the requested logins that are not among the
\* returned ones, compared in lower case
missing_logins(requested, users) ==
    LET found == {to_lowercase(users[k].login) : k \in 1..Len(users)}
    IN  SelectSeq(requested, LAMBDA login : to_lowercase(login) \notin found)

\* follow.rs, lines 19-30, list.rs, lines 31-39: load the config; a token that
\* needs a refresh makes the command call auth::run. The call of
\* token_needs_refresh is recorded in config, now and needs.
LoadConfig ==
    /\ cpc = "load"
    /\ LET l == load_config(fs.path)
       IN  IF ~l.ok
           THEN Return([kind |-> "ConfigParseError"]) /\ fcfg' = fcfg /\ UNCHANGED tokenVars
           ELSE /\ fcfg' = l.val
                /\ config' = l.val
                /\ now' = clock
                /\ needs' = [called |-> TRUE, val |-> token_needs_refresh(l.val, clock)]
                /\ cres' = cres
                /\ cpc' = IF token_needs_refresh(l.val, clock) THEN "auth_start" ELSE "creds"
    /\ UNCHANGED <<cmd, fs, fs0, acfg, clock, refreshes, tokenCalls, tokenOut, ares,
                   renames, savedRec, reqs, args, upstream, db, items, got, upserted, apiOut>>
    /\ UNCHANGED <<unf, cargs>>
    /\ UNCHANGED <<watchVars, normVars, parseVars>>

\* follow.rs, line 29, list.rs, line 38: the config is loaded again after auth::run
Reload ==
    /\ cpc = "reload"
    /\ LET l == load_config(fs.path)
       IN  IF ~l.ok THEN Return([kind |-> "ConfigParseError"]) /\ fcfg' = fcfg
           ELSE fcfg' = l.val /\ cres' = cres /\ cpc' = "creds"
    /\ UNCHANGED <<cmd, fs, fs0, acfg, clock, refreshes, tokenCalls, tokenOut, ares,
                   renames, savedRec, reqs, args, upstream, db, items, got, upserted, apiOut>>
    /\ UNCHANGED <<unf, cargs>>
    /\ UNCHANGED <<watchVars, normVars, parseVars, tokenVars>>

\* follow.rs, lines 32-53, list.rs, lines 41-48: the trimmed client id and
\* access token must not be empty; then the fetch function is called with the
\* logins of the command line or the ids of the followed streamers
Creds ==
    /\ cpc = "creds"
    /\ IF ~trimmed_nonempty(fcfg.client_id).some
       THEN Return([kind |-> "MissingClientId"]) /\ items' = items
       ELSE IF ~trimmed_nonempty(fcfg.access_token).some
       THEN Return([kind |-> "MissingAccessToken"]) /\ items' = items
       ELSE /\ cpc' = "fetch_call" /\ cres' = cres
            /\ items' = IF cmd = "follow" THEN args.logins
                        ELSE LET streamers == list_streamers(db.rows)
                             IN  [k \in 1..Len(streamers) |-> streamers[k].id]
    /\ UNCHANGED <<cmd, fs, fs0, acfg, fcfg, clock, refreshes, tokenCalls, tokenOut, ares,
                   renames, savedRec, reqs, args, upstream, db, got, upserted, apiOut>>
    /\ UNCHANGED <<unf, cargs>>
    /\ UNCHANGED <<watchVars, normVars, parseVars, tokenVars>>

\* follow.rs, lines 54-58: no user at all is an error; otherwise db::connect
FollowConnect ==
    /\ cpc = "follow_connect"
    /\ IF got = <<>>
       THEN Return([kind |-> "NoStreamersFound"]) /\ db' = db
       ELSE \E step \in ConnectOutcomes :
              /\ db' = [db EXCEPT !.exists = db.exists \/ connect_creates(step)]
              /\ IF step = "ok" THEN cpc' = "follow_upsert" /\ cres' = cres
                 ELSE Return([kind |-> "DbError", step |-> step])
    /\ UNCHANGED <<cmd, fs, fs0, acfg, fcfg, clock, refreshes, tokenCalls, tokenOut, ares,
                   renames, savedRec, reqs, args, upstream, items, got, upserted, apiOut>>
    /\ UNCHANGED <<unf, cargs>>
    /\ UNCHANGED <<watchVars, normVars, parseVars, tokenVars>>

\* follow.rs, lines 64-87: one turn of the upsert loop; after the last user the
\* miss-list is printed and follow returns Ok
FollowUpsert ==
    /\ cpc = "follow_upsert"
    /\ \E ok \in BOOLEAN :
         IF ~ok THEN Return([kind |-> "DbError", step |-> "upsert"])
                     /\ UNCHANGED <<db, upserted, apiOut>>
         ELSE /\ db' = [db EXCEPT !.rows = upsert_streamer(db.rows, got[upserted + 1])]
              /\ upserted' = upserted + 1
              /\ IF upserted + 1 < Len(got) THEN cpc' = "follow_upsert" /\ cres' = cres
                 ELSE Return([kind |-> "Ok", followed |-> Len(got),
                              missing |-> missing_logins(args.logins, got)])
    /\ UNCHANGED <<cmd, fs, fs0, acfg, fcfg, clock, refreshes, tokenCalls, tokenOut, ares,
                   renames, savedRec, reqs, args, upstream, items, got, apiOut>>
    /\ UNCHANGED <<unf, cargs>>
    /\ UNCHANGED <<watchVars, normVars, parseVars, tokenVars>>

\* list.rs, lines 24-29: db::connect and db::list_streamers; an empty follow
\* list returns Ok at once
ListStart ==
    /\ cpc = "list_start"
    /\ \E step \in ConnectOutcomes :
         /\ db' = [db EXCEPT !.exists = db.exists \/ connect_creates(step)]
         /\ IF step # "ok" THEN Return([kind |-> "DbError", step |-> step])
            ELSE IF list_streamers(db.rows) = <<>>
            THEN Return([kind |-> "Ok", rows |-> <<>>])
            ELSE cpc' = "load" /\ cres' = cres
    /\ UNCHANGED <<cmd, fs, fs0, acfg, fcfg, clock, refreshes, tokenCalls, tokenOut, ares,
                   renames, savedRec, reqs, args, upstream, items, got, upserted, apiOut>>
    /\ UNCHANGED <<unf, cargs>>
    /\ UNCHANGED <<watchVars, normVars, parseVars, tokenVars>>

\* a map in which no id is found
online_get_never(id) == [some |-> FALSE, val |-> TwitchStream(id)]

\* online_map.get(id): the last stream collected for the id (lines 49-52)
online_get(id) ==
    LET ks == {k \in 1..Len(got) : got[k].user_id = id}
    IN  IF ks = {} THEN [some |-> FALSE, val |-> TwitchStream(id)]
        ELSE [some |-> TRUE, val |-> got[CHOOSE k \in ks : \A j \in ks : j <= k]]

S_online == <<"o","n">>
S_offline == <<"o","f","f">>

\* the rows of the loop of lines 54-75
RECURSIVE list_rows(_, _)
list_rows(streamers, status) ==
    IF streamers = <<>> THEN <<>>
    ELSE LET st == Head(streamers)
             online == online_get(st.id)
             row(game, label) == [login |-> st.name, display_name |-> st.display_name,
                                  game_name |-> game, status |-> label]
             here == CASE status = "Online" ->
                            IF online.some THEN <<row(online.val.game_name, None)>> ELSE <<>>
                       [] status = "Offline" ->
                            IF ~online.some THEN <<row(<<>>, None)>> ELSE <<>>
                       [] OTHER ->
                            IF online.some THEN <<row(online.val.game_name, Some(S_online))>>
                            ELSE <<row(<<>>, Some(S_offline))>>
         IN  here \o list_rows(Tail(streamers), status)

\* list.rs, lines 49-88: the rows are built and printed
ListRows ==
    /\ cpc = "list_rows"
    /\ Return([kind |-> "Ok", rows |-> list_rows(list_streamers(db.rows), args.status)])
    /\ UNCHANGED <<cmd, fs, fs0, acfg, fcfg, clock, refreshes, tokenCalls, tokenOut, ares,
                   renames, savedRec, reqs, args, upstream, db, items, got, upserted, apiOut>>
    /\ UNCHANGED <<unf, cargs>>
    /\ UNCHANGED <<watchVars, normVars, parseVars, tokenVars>>

\* ------------------------------------------------------------------------
\* unfollow::run
\* ------------------------------------------------------------------------
MaxRuns == 2        \* runs of one unfollow command line

\* a delete that compares the login as it is written
delete_streamer_by_login_exact(rows, login) ==
    LET hit == {r \in rows : r.name = login}
    IN  [affected |-> Cardinality(hit), rows |-> rows \ hit]

\* db::delete_streamer_by_login: the rows whose login is `login`, compared
\* without regard to case, are deleted; their number is returned
delete_streamer_by_login(rows, login) ==
    LET hit == {r \in rows : to_lowercase(r.name) = to_lowercase(login)}
    IN  [affected |-> Cardinality(hit), rows |-> rows \ hit]

\* unfollow.rs, line 18: db::connect().await?
UnfollowConnect ==
    /\ cpc = "unfollow_connect"
    /\ \E step \in ConnectOutcomes :
         /\ db' = [db EXCEPT !.exists = db.exists \/ connect_creates(step)]
         /\ IF step # "ok" THEN Return([kind |-> "DbError", step |-> step])
            ELSE cpc' = "unfollow_loop" /\ cres' = cres
    /\ UNCHANGED <<cmd, fs, fs0, acfg, fcfg, clock, refreshes, tokenCalls, tokenOut, ares,
                   renames, savedRec, reqs, args, upstream, items, got, upserted, apiOut>>
    /\ UNCHANGED <<unf, cargs>>
    /\ UNCHANGED <<watchVars, normVars, parseVars, tokenVars>>

\* a loop that calls the delete for every login of the command line
UnfollowStep_nodedup ==
    /\ cpc = "unfollow_loop"
    /\ LET login == args.logins[unf.k + 1]
           key == to_lowercase(login)
           Finish(u) ==
               IF unf.k + 1 = Len(args.logins)
               THEN Return([kind |-> "Ok", removed |-> u.removed, missing |-> u.missing])
               ELSE cpc' = cpc /\ cres' = cres
       IN  \E ok \in BOOLEAN :
             IF ~ok
             THEN /\ unf' = [unf EXCEPT !.k = @ + 1, !.seen = @ \cup {key}]
                  /\ db' = db
                  /\ Return([kind |-> "DbError", step |-> "delete"])
             ELSE LET d == delete_streamer_by_login(db.rows, login)
                      u == [unf EXCEPT
                              !.k = @ + 1,
                              !.seen = @ \cup {key},
                              !.removed = @ + d.affected,
                              !.missing = IF d.affected = 0 THEN Append(@, login) ELSE @,
                              !.calls = Append(@, [login |-> login, before |-> db.rows,
                                                   affected |-> d.affected,
                                                   after |-> d.rows])]
                  IN  unf' = u /\ db' = [db EXCEPT !.rows = d.rows] /\ Finish(u)
    /\ UNCHANGED <<cmd, fs, fs0, acfg, fcfg, clock, refreshes, tokenCalls, tokenOut, ares,
                   renames, savedRec, reqs, args, upstream, items, got, upserted, apiOut>>
    /\ UNCHANGED cargs
    /\ UNCHANGED <<watchVars, normVars, parseVars, tokenVars>>

\* unfollow.rs, lines 23-48: one turn of the loop: a login whose lower-cased key
\* was seen is skipped; otherwise the delete is called, and its error returned or
\* its count added to `removed` or the login pushed to `missing`. After the last
\* login run returns Ok with `removed` and `missing` printed.
UnfollowStep ==
    /\ cpc = "unfollow_loop"
    /\ LET login == args.logins[unf.k + 1]
           key == to_lowercase(login)
           Finish(u) ==
               IF unf.k + 1 = Len(args.logins)
               THEN Return([kind |-> "Ok", removed |-> u.removed, missing |-> u.missing])
               ELSE cpc' = cpc /\ cres' = cres
       IN  IF key \in unf.seen
           THEN LET u == [unf EXCEPT !.k = @ + 1]
                IN  unf' = u /\ db' = db /\ Finish(u)
           ELSE \E ok \in BOOLEAN :
                  IF ~ok
                  THEN /\ unf' = [unf EXCEPT !.k = @ + 1, !.seen = @ \cup {key}]
                       /\ db' = db
                       /\ Return([kind |-> "DbError", step |-> "delete"])
                  ELSE LET d == delete_streamer_by_login(db.rows, login)
                           u == [unf EXCEPT
                                   !.k = @ + 1,
                                   !.seen = @ \cup {key},
                                   !.removed = @ + d.affected,
                                   !.missing = IF d.affected = 0 THEN Append(@, login) ELSE @,
                                   !.calls = Append(@, [login |-> login, before |-> db.rows,
                                                        affected |-> d.affected,
                                                        after |-> d.rows])]
                       IN  unf' = u /\ db' = [db EXCEPT !.rows = d.rows] /\ Finish(u)
    /\ UNCHANGED <<cmd, fs, fs0, acfg, fcfg, clock, refreshes, tokenCalls, tokenOut, ares,
                   renames, savedRec, reqs, args, upstream, items, got, upserted, apiOut>>
    /\ UNCHANGED cargs
    /\ UNCHANGED <<watchVars, normVars, parseVars, tokenVars>>

\* the same command line is run once more: run starts again with removed = 0 and
\* empty `missing` and `seen` (lines 20-22)
UnfollowAgain ==
    /\ cmd = "unfollow" /\ cpc = "done" /\ cres.kind = "Ok"
    /\ unf.runs < MaxRuns
    /\ unf' = [NoUnf EXCEPT !.calls = unf.calls, !.runs = unf.runs + 1]
    /\ cpc' = "unfollow_connect"
    /\ cres' = Running
    /\ UNCHANGED <<cmd, fs, fs0, acfg, fcfg, clock, refreshes, tokenCalls, tokenOut, ares,
                   renames, savedRec, reqs, args, upstream, db, items, got, upserted, apiOut>>
    /\ UNCHANGED cargs
    /\ UNCHANGED <<watchVars, normVars, parseVars, tokenVars>>

\* ------------------------------------------------------------------------
\* config::run
\* ------------------------------------------------------------------------

\* a parser that takes every text for the instant 0
parse_from_rfc3339_any(s) == Ok(0)

\* DateTime::parse_from_rfc3339 and with_timezone(&Utc), for the texts
\* YYYY-MM-DDTHH:MM:SSZ and YYYY-MM-DDTHH:MM:SS+HH:MM (or -HH:MM): the instant in
\* seconds since 1970-01-01T00:00:00Z, or an error for any other text
parse_from_rfc3339(s) ==
    LET digit(k) == CHOOSE v \in 0..9 : DigitSeq[v + 1] = s[k]
        num2(k) == (10 * digit(k)) + digit(k + 1)
        shaped ==
            /\ Len(s) \in {20, 25}
            /\ \A k \in {1, 2, 3, 4, 6, 7, 9, 10, 12, 13, 15, 16, 18, 19} : s[k] \in Range(DigitSeq)
            /\ s[5] = "-" /\ s[8] = "-" /\ s[11] = "T" /\ s[14] = ":" /\ s[17] = ":"
            /\ IF Len(s) = 20 THEN s[20] = "Z"
               ELSE /\ s[20] \in {"+", "-"} /\ s[23] = ":"
                    /\ \A k \in {21, 22, 24, 25} : s[k] \in Range(DigitSeq)
    IN  IF ~shaped THEN Err(s)
        ELSE
        LET y == (100 * num2(1)) + num2(3)
            mo == num2(6)
            d == num2(9)
            leap == (y % 4 = 0 /\ y % 100 # 0) \/ y % 400 = 0
            month_days == <<31, IF leap THEN 29 ELSE 28, 31, 30, 31, 30, 31, 31, 30, 31, 30, 31>>
            leaps(n) == ((n \div 4) - (n \div 100)) + (n \div 400)
            RECURSIVE days_before(_)
            days_before(m) == IF m = 1 THEN 0 ELSE month_days[m - 1] + days_before(m - 1)
            offset == IF Len(s) = 20 THEN 0
                      ELSE (IF s[20] = "-" THEN -1 ELSE 1) * ((3600 * num2(21)) + (60 * num2(24)))
            in_range ==
                /\ mo \in 1..12 /\ d >= 1 /\ num2(12) <= 23 /\ num2(15) <= 59 /\ num2(18) <= 59
                /\ Len(s) = 25 => num2(21) <= 23 /\ num2(24) <= 59
        IN  IF ~in_range THEN Err(s)
            ELSE IF d > month_days[mo] THEN Err(s)
            ELSE LET days == ((365 * (y - 1970)) + (leaps(y - 1) - leaps(1969)))
                             + days_before(mo) + (d - 1)
                 IN  Ok((((86400 * days) + (3600 * num2(12))) + (60 * num2(15)) + num2(18)) - offset)

\* config::run, lines 43-78: the flag checks, load_config, the flags put into the
\* loaded config and the parse of --expires-at; nothing is written before
\* save_config of line 81
ConfigRun ==
    /\ cpc = "config_run"
    /\ LET has_updates == cargs.client_id.some \/ cargs.client_secret.some
                          \/ cargs.access_token.some \/ cargs.expires_at.some
           l == load_config(fs.path)
           c1 == IF cargs.client_id.some THEN [l.val EXCEPT !.client_id = cargs.client_id]
                 ELSE l.val
           c2 == IF cargs.client_secret.some THEN [c1 EXCEPT !.client_secret = cargs.client_secret]
                 ELSE c1
           c3 == IF cargs.access_token.some THEN [c2 EXCEPT !.access_token = cargs.access_token]
                 ELSE c2
           parsed == parse_from_rfc3339(cargs.expires_at.val)
           c4 == IF cargs.expires_at.some THEN [c3 EXCEPT !.expires_at = Some(parsed.val)]
                 ELSE c3
       IN  IF ~cargs.show /\ ~has_updates
           THEN Return([kind |-> "NoFlags"]) /\ UNCHANGED <<acfg, savedRec>>
           ELSE IF ~l.ok
           THEN Return([kind |-> "ConfigParseError"]) /\ UNCHANGED <<acfg, savedRec>>
           ELSE IF ~has_updates
           THEN /\ Return([kind |-> "Ok", printed |-> TRUE, shown |-> print_config(l.val)])
                /\ acfg' = l.val /\ savedRec' = savedRec
           ELSE IF cargs.expires_at.some /\ ~parsed.ok
           THEN Return([kind |-> "InvalidExpiresAt"]) /\ acfg' = c3 /\ savedRec' = savedRec
           ELSE /\ acfg' = c4
                /\ savedRec' = [some |-> TRUE, val |-> c4]
                /\ cpc' = "save_create" /\ cres' = cres
    /\ UNCHANGED <<cmd, fs, fs0, fcfg, clock, refreshes, tokenCalls, tokenOut, ares, renames,
                   reqs, args, upstream, db, items, got, upserted, apiOut>>
    /\ UNCHANGED <<unf, cargs>>
    /\ UNCHANGED <<watchVars, normVars, parseVars, tokenVars>>

\* the credential records a store file may hold when a command starts
S_blank == <<" ">>
S_token == <<" ","t">>
StoreRecords ==
    [client_id : {None, Some(S_blank), Some(S_id)},
     client_secret : {None, Some(S_blank), Some(S_secret)},
     access_token : {None, Some(S_blank), Some(S_token)},
     expires_at : {NoTime, Some(1)}]
StoreFiles == {Absent} \cup {Json(r) : r \in StoreRecords}

\* the command lines of follow, what the service knows, the databases of list
FollowLists == {<<In_Foo>>, <<In_Foo, <<"b","a","r">>>>}
Row_foo == [id |-> S_hash \o In_foo, name |-> In_foo, display_name |-> In_foo]
Row_bar == [id |-> S_hash \o <<"b","a","r">>, name |-> <<"b","a","r">>,
            display_name |-> <<"b","a","r">>]
ListDbs == {NoDb, [exists |-> TRUE, rows |-> {}], [exists |-> TRUE, rows |-> {Row_foo}],
            [exists |-> TRUE, rows |-> {Row_foo, Row_bar}]}

CliFresh ==
    /\ fs \in [path : StoreFiles, tmp : {Absent}] /\ fs0 = fs.path
    /\ acfg = DefaultConfig /\ fcfg = DefaultConfig /\ clock = 0
    /\ refreshes = 0 /\ tokenCalls = 0 /\ renames = 0
    /\ tokenOut = NoOutcome /\ ares = Running
    /\ savedRec = [some |-> FALSE, val |-> DefaultConfig]
    /\ reqs = <<>> /\ cres = Running
    /\ items = <<>> /\ got = <<>> /\ upserted = 0 /\ apiOut = NoApiOutcome
    /\ unf = NoUnf

InitAuth ==
    /\ cmd = "auth" /\ cpc = "auth_start"
    /\ CliFresh
    /\ args = NoArgs /\ upstream = NoUpstream /\ db = NoDb /\ cargs = NoConfigArgs

\* clap: `required = true, num_args = 1..`, so logins is never empty
InitFollow ==
    /\ cmd = "follow" /\ cpc = "load"
    /\ CliFresh
    /\ args \in [logins : FollowLists, status : {"Online"}]
    /\ upstream \in [known : SUBSET {In_foo, <<"b","a","r">>}, live : {{}}]
    /\ db = NoDb /\ cargs = NoConfigArgs

InitList ==
    /\ cmd = "list" /\ cpc = "list_start"
    /\ CliFresh
    /\ args \in [logins : {<<>>}, status : {"Online", "Offline", "All"}]
    /\ db \in ListDbs
    /\ upstream \in [known : {{}}, live : SUBSET {r.id : r \in db.rows}]
    /\ cargs = NoConfigArgs

\* the texts given as --expires-at: two timestamps, a date and a thirteenth month
Timestamps ==
    {<<"1","9","7","0","-","0","1","-","0","1","T","0","0",":","0","0",":","0","2","Z">>,
     <<"1","9","7","0","-","0","1","-","0","1","T","0","1",":","0","0",":","0","3","+","0","1",":","0","0">>,
     <<"1","9","7","0","-","0","1","-","0","1">>,
     <<"1","9","7","0","-","1","3","-","0","1","T","0","0",":","0","0",":","0","2","Z">>}

InitConfig ==
    /\ cmd = "config" /\ cpc = "config_run"
    /\ CliFresh
    /\ args = NoArgs /\ upstream = NoUpstream /\ db = NoDb
    /\ cargs \in [client_id : {None, Some(<<"I">>)},
                  client_secret : {None, Some(<<"S">>)},
                  access_token : {None, Some(<<"T">>)},
                  expires_at : {None} \cup {Some(ts) : ts \in Timestamps},
                  show : BOOLEAN]

\* clap: `required = true, num_args = 1..`, so logins is never empty. The follow
\* lists have the rows of ListDbs, and one has two rows with the same login in
\* different case (the table keeps id unique, not name).
InitUnfollow ==
    /\ cmd = "unfollow" /\ cpc = "unfollow_connect"
    /\ fs = [path |-> Absent, tmp |-> Absent] /\ fs0 = Absent
    /\ acfg = DefaultConfig /\ fcfg = DefaultConfig /\ clock = 0
    /\ refreshes = 0 /\ tokenCalls = 0 /\ renames = 0
    /\ tokenOut = NoOutcome /\ ares = Running
    /\ savedRec = [some |-> FALSE, val |-> DefaultConfig]
    /\ reqs = <<>> /\ cres = Running
    /\ items = <<>> /\ got = <<>> /\ upserted = 0 /\ apiOut = NoApiOutcome
    /\ unf = NoUnf /\ cargs = NoConfigArgs /\ upstream = NoUpstream
    /\ args \in [logins : {<<In_Foo>>, <<In_Foo, <<"F","O","O">>>>, <<In_Foo, <<"b","a","r">>>>,
                           <<In_baz, In_foo, In_Foo>>},
                 status : {"Online"}]
    /\ db \in ListDbs
             \cup {[exists |-> TRUE,
                    rows |-> {Row_foo, [id |-> S_hash \o <<"2">>, name |-> <<"F","O","O">>,
                                        display_name |-> In_Foo]}]}

InitCli ==
    /\ InitAuth \/ InitFollow \/ InitList \/ InitConfig \/ InitUnfollow
    /\ WatchIdle /\ NormIdle /\ ParseIdle /\ TokenIdle

NextCli ==
    \/ AuthStart
    \/ AuthSend
    \/ SaveCreate
    \/ SaveWrite
    \/ SaveSync
    \/ SaveRename
    \/ SaveRemove
    \/ SaveRename2
    \/ SavePerms
    \/ CliTick
    \/ LoadConfig
    \/ Reload
    \/ Creds
    \/ FetchCall
    \/ FetchBatch
    \/ FollowConnect
    \/ FollowUpsert
    \/ ListStart
    \/ ListRows
    \/ ConfigRun
    \/ UnfollowConnect
    \/ UnfollowStep
    \/ UnfollowAgain

SpecCli == InitCli /\ [][NextCli]_vars

\* ------------------------------------------------------------------------
\* fetch_users_by_login and fetch_streams_by_user_ids called on their own
\* ------------------------------------------------------------------------
MaxItems == 210     \* logins or ids of one fetch call

\* the k-th login or id: "u000", "u001", ...
Item(k) == <<"u", DigitSeq[((k \div 100) % 10) + 1], DigitSeq[((k \div 10) % 10) + 1],
             DigitSeq[(k % 10) + 1]>>
ItemList(n) == [k \in 1..n |-> Item(k)]

InitFetch ==
    /\ cmd \in {"fetch_users", "fetch_streams"} /\ cpc = "fetch_call"
    /\ fs = [path |-> Absent, tmp |-> Absent] /\ fs0 = Absent
    /\ acfg = DefaultConfig
    /\ fcfg = [client_id |-> Some(S_id), client_secret |-> Some(S_secret),
               access_token |-> Some(S_token), expires_at |-> Some(1)]
    /\ clock = 0 /\ refreshes = 0 /\ tokenCalls = 0 /\ renames = 0
    /\ tokenOut = NoOutcome /\ ares = Running
    /\ savedRec = [some |-> FALSE, val |-> DefaultConfig]
    /\ reqs = <<>> /\ cres = Running /\ args = NoArgs /\ db = NoDb
    /\ \E n \in 0..MaxItems :
         /\ items = ItemList(n)
         /\ upstream \in {NoUpstream, [known |-> Range(ItemList(n)), live |-> Range(ItemList(n))]}
    /\ got = <<>> /\ upserted = 0 /\ apiOut = NoApiOutcome
    /\ unf = NoUnf /\ cargs = NoConfigArgs
    /\ WatchIdle /\ NormIdle /\ ParseIdle /\ TokenIdle

NextFetch == FetchCall \/ FetchBatch

SpecFetch == InitFetch /\ [][NextFetch]_vars

\* ========================================================================
\* Claims about watch::run (SpecWatch)
\* ========================================================================
Targets == 1..Len(logins)
Returned == wpc = "done"
Terminal(i) == child[i] \in {"exit0", "exit1", "waiterr"}
Invocable(b) == avail[b] \in {"ok", "nonzero"}
NothingSpawned == \A i \in 1..Len(spawned) : spawned[i] = "none" /\ child[i] = "none"

\* the targets an error returned by run names, in the order it names them; the
\* error of a failed cmd.spawn() counts as naming its target
NamedFailures ==
    CASE result.kind = "Failed" -> [k \in 1..Len(result.failed) |-> result.failed[k].login]
      [] result.kind = "SpawnError" -> <<result.login>>
      [] OTHER -> <<>>

\* the outcome of target i in the terms of the specification
TargetFailed(i) == spawned[i] = "failed" \/ child[i] \in {"exit1", "waiterr"}
TargetSucceeded(i) == spawned[i] = "ok" /\ child[i] = "exit0"

\* the sub-sequence of logins whose target failed, in target order
RECURSIVE FailingFrom(_)
FailingFrom(i) ==
    IF i > Len(logins) THEN <<>>
    ELSE IF TargetFailed(i) THEN <<logins[i]>> \o FailingFrom(i + 1)
    ELSE FailingFrom(i + 1)

\* C1: when watch::run has returned, no child it spawned is still running.
C1_ReturnsOnlyAfterAllChildrenExited ==
    Returned => \A i \in Targets : child[i] # "running"

\* C2: a target whose process fails to start is reported, and every other target of
\* the normalized list is still launched and its child waited on before run returns.
C2_LaunchFailureIsolated ==
    Returned =>
        \A i \in Targets : spawned[i] = "failed" =>
            /\ \E k \in 1..Len(NamedFailures) : NamedFailures[k] = logins[i]
            /\ \A j \in Targets \ {i} : spawned[j] # "none"
            /\ \A j \in Targets \ {i} : spawned[j] = "ok" => Terminal(j)

\* the outcomes run has produced for target i: the match arms of the join loop, and
\* the error of a failed spawn
OutcomeCount(i) ==
    Cardinality({k \in 1..Len(outcomes) : outcomes[k].login = logins[i]})
    + (IF result.kind = "SpawnError" /\ result.login = logins[i] THEN 1 ELSE 0)

\* C3: when a run that passed pre-flight and normalization has returned, exactly one
\* outcome was produced for each normalized target.
C3_ExactlyOneOutcomePerTarget ==
    (Returned /\ logins # <<>>) => \A i \in Targets : OutcomeCount(i) = 1

\* C4: once run has returned and all children have exited, run succeeded iff every
\* target succeeded, and otherwise its error names exactly the failing targets in
\* normalized target order.
C4_ResultIsFailingTargetsInOrder ==
    (Returned /\ logins # <<>> /\ \A i \in Targets : child[i] # "running") =>
        /\ result.kind = "Ok" <=> \A i \in Targets : TargetSucceeded(i)
        /\ result.kind # "Ok" => NamedFailures = FailingFrom(1)

\* C5: a run that ends with the aggregated failure reports the number of targets
\* that succeeded, equal to the number of targets minus the number of failing ones.
C5_ReportsSucceededCount ==
    (Returned /\ result.kind = "Failed") =>
        /\ "succeeded" \in DOMAIN result
        /\ result.succeeded = Len(logins) - Len(result.failed)

\* C6: when some raw input is neither a URL nor a bare login, run fails with
\* InvalidInput carrying such an input, and no player process was started.
C6_InvalidInputFailsFast ==
    (Returned /\ \E k \in 1..Len(streams) : ~parse_login(streams[k]).ok) =>
        /\ result.kind = "InvalidInput"
        /\ \E k \in 1..Len(streams) : ~parse_login(streams[k]).ok /\ result.input = streams[k]
        /\ NothingSpawned

\* C9: when streamlink or mpv is not invocable no player process is ever spawned,
\* and run returns DependencyMissing naming streamlink if streamlink is not
\* invocable, and mpv otherwise.
C9_PreflightAborts ==
    (~Invocable("streamlink") \/ ~Invocable("mpv")) =>
        /\ NothingSpawned
        /\ wpc \in {"preflight_streamlink", "preflight_mpv", "done"}
        /\ Returned =>
            /\ result.kind = "DependencyMissing"
            /\ result.name = IF ~Invocable("streamlink") THEN "streamlink" ELSE "mpv"

C9_Witness ==
    /\ Returned
    /\ ~Invocable("streamlink") /\ ~Invocable("mpv")
    /\ result.kind = "DependencyMissing" /\ result.name = "streamlink"
    /\ Len(streams) > 1


\* ========================================================================
\* Claims about normalize_inputs (SpecNormalize)
\* ========================================================================
LoginChars == Range(UpperSeq) \cup Range(LowerSeq) \cup Range(DigitSeq) \cup {"_"}
BareLoginForm(s) == s # <<>> /\ Range(s) \subseteq LoginChars

\* the accepted prefixes of a service URL: scheme, optional www., host and "/"
UrlPrefixes ==
    {sc \o w \o <<"t","w","i","t","c","h",".","t","v">> \o <<"/">> :
        sc \in {S_http, S_https}, w \in {<<>>, S_www}}

\* what follows an accepted prefix of s
SegmentsOf(s) ==
    {SubSeq(s, Len(p) + 1, Len(s)) : p \in {q \in UrlPrefixes : starts_with(s, q)}}

LoginUrlForm(s) == \E seg \in SegmentsOf(s) : BareLoginForm(seg)
ValidRaw(s) == LoginUrlForm(s) \/ BareLoginForm(s)

\* the channel a valid raw input names: the path segment of a URL, or the bare name
Identifier(s) == IF SegmentsOf(s) # {} THEN CHOOSE seg \in SegmentsOf(s) : TRUE ELSE s

Ids == [k \in 1..Len(rawList) |-> to_lowercase(Identifier(rawList[k]))]
FirstIndex(x) == CHOOSE k \in 1..Len(rawList) : Ids[k] = x /\ \A j \in 1..(k - 1) : Ids[j] # x

Ex_urlFoo == S_https \o S_host \o <<"F","o","o">>
Ex_FOO == <<"F","O","O">>

\* C7: for a list of valid raw inputs normalize_inputs returns the lower-cased
\* identifiers, each exactly once, in the order of their first occurrences.
C7_NormalizeDedupFirstSeen ==
    (normOut.called /\ \A k \in 1..Len(rawList) : ValidRaw(rawList[k])) =>
        /\ normOut.res.ok
        /\ LET out == normOut.res.val
           IN  /\ Range(out) = Range(Ids)
               /\ \A a, b \in 1..Len(out) : a # b => out[a] # out[b]
               /\ \A a, b \in 1..Len(out) : a < b => FirstIndex(out[a]) < FirstIndex(out[b])
               /\ \A a \in 1..Len(out) : Range(out[a]) \cap Range(UpperSeq) = {}
               /\ rawList = <<Ex_urlFoo, In_foo, Ex_FOO>> => out = <<In_foo>>

C7_Witness ==
    /\ normOut.called
    /\ rawList = <<Ex_urlFoo, In_foo, Ex_FOO>>
    /\ normOut.res = Ok(<<In_foo>>)

\* ========================================================================
\* Claims about parse_twitch_url (SpecParse)
\* ========================================================================
HasHttpScheme(s) == starts_with(s, S_http) \/ starts_with(s, S_https)
OtherHostUrl(s) == HasHttpScheme(s) /\ SegmentsOf(s) = {}

\* C8 as stated: an input is accepted as a service URL exactly when its path segment
\* is non-empty and has no '/', '?' or '#'; a URL with another host is InvalidInput.
C8_UrlAcceptedIffSingleSegment ==
    parseOut.called =>
        /\ parseOut.url.some <=>
              \E seg \in SegmentsOf(url) :
                  seg # <<>> /\ ~contains(seg, "/") /\ ~contains(seg, "?") /\ ~contains(seg, "#")
        /\ OtherHostUrl(url) => ~parseOut.login.ok /\ parseOut.login.val = url

\* C8 amended: an input is accepted as a service URL exactly when its path segment is
\* non-empty and consists of ASCII letters, digits and underscores only, and the
\* segment is the login; a URL with another host is InvalidInput.
C8_UrlAcceptedIffLoginSegment ==
    parseOut.called =>
        /\ parseOut.url.some <=> \E seg \in SegmentsOf(url) : BareLoginForm(seg)
        /\ parseOut.url.some => parseOut.url.val \in SegmentsOf(url)
        /\ OtherHostUrl(url) => ~parseOut.login.ok /\ parseOut.login.val = url

C8_Witness ==
    /\ parseOut.called
    /\ url = S_https \o S_www \o S_host \o <<"F","_">>
    /\ parseOut.url = Some(<<"F","_">>)

\* ========================================================================
\* Claims about token_needs_refresh (SpecToken)
\* ========================================================================
NonBlank(s) == \E i \in 1..Len(s) : s[i] \notin Whitespace

\* C10: token_needs_refresh returns false iff the access token is present and not
\* blank, an expiry is present, and the current time is strictly before the expiry.
C10_UsableIffNonBlankAndBeforeExpiry ==
    needs.called =>
        (needs.val = FALSE <=>
            /\ config.access_token.some
            /\ NonBlank(config.access_token.val)
            /\ config.expires_at.some
            /\ now < config.expires_at.val)

C10_Witness ==
    /\ needs.called
    /\ needs.val
    /\ config.access_token.some /\ NonBlank(config.access_token.val)
    /\ config.expires_at.some /\ now = config.expires_at.val /\ now > 0

\* ========================================================================
\* Claims about the credential refresh and the credential store (SpecCli)
\* ========================================================================
InFollowOrList == cmd \in {"follow", "list"}

\* the record the store held when the command started
Cached == load_config(fs0).val

\* the ensure-fresh step has loaded a record whose token is not blank and
\* whose expiry is strictly after the time of the check
LoadedFresh ==
    /\ InFollowOrList /\ needs.called
    /\ config.access_token.some /\ NonBlank(config.access_token.val)
    /\ config.expires_at.some /\ now < config.expires_at.val

LoadedWithoutExpiry ==
    /\ InFollowOrList /\ needs.called
    /\ config.access_token.some /\ ~config.expires_at.some

\* C12: when the loaded record has an access token but no expiry, the
\* ensure-fresh step decides to refresh, auth::run is called before anything
\* else happens, and a resolver request is only ever sent after auth::run has
\* returned Ok, with the token of the record the refresh stored, which has an
\* expiry.
C12_NoExpiryAlwaysRefreshes ==
    LoadedWithoutExpiry =>
        /\ needs.val
        /\ cpc # "auth_start" => refreshes = 1
        /\ cpc \in {"reload", "creds", "fetch_call", "fetch"} \/ reqs # <<>> =>
             /\ ares.kind = "Ok"
             /\ savedRec.some /\ savedRec.val.expires_at.some
             /\ fs.path = Json(savedRec.val)
        /\ \A i \in 1..Len(reqs) : reqs[i].token = trim(savedRec.val.access_token.val)

C12_Witness ==
    /\ LoadedWithoutExpiry /\ NonBlank(config.access_token.val)
    /\ cmd = "follow" /\ cpc = "done" /\ cres.kind = "Ok"
    /\ refreshes = 1 /\ tokenCalls = 1 /\ Len(reqs) = 1
    /\ reqs[1].token = S_newtoken

\* the fields of the stored record that are absent or blank
FieldAbsent(opt) == ~(opt.some /\ NonBlank(opt.val))
AbsentFields ==
    (IF FieldAbsent(Cached.client_id) THEN <<"client ID">> ELSE <<>>)
    \o (IF FieldAbsent(Cached.client_secret) THEN <<"client secret">> ELSE <<>>)

\* C13: once auth::run has started with a record whose client id or client
\* secret is absent or blank, it has returned MissingCredentials naming exactly
\* the absent fields, no POST was sent and the store files are untouched; and
\* MissingCredentials is returned in no other case.
C13_MissingCredentialsFailFast ==
    /\ (refreshes > 0 /\ AbsentFields # <<>>) =>
          /\ cpc = "done"
          /\ ares = [kind |-> "MissingCredentials", missing |-> AbsentFields]
          /\ cres = ares
          /\ tokenCalls = 0 /\ ~tokenOut.some
          /\ renames = 0 /\ ~savedRec.some
          /\ fs = [path |-> fs0, tmp |-> Absent]
    /\ ares.kind = "MissingCredentials" => AbsentFields # <<>>

C13_Witness ==
    /\ cmd = "auth" /\ cpc = "done"
    /\ Cached.client_id = Some(S_id) /\ Cached.client_secret = Some(S_blank)
    /\ ares = [kind |-> "MissingCredentials", missing |-> <<"client secret">>]
    /\ tokenCalls = 0

\* the token endpoint has answered with a status
TokenAnswered == tokenOut.some /\ tokenOut.val.kind = "http"

AuthErrorKinds ==
    {"InvalidClientId", "InvalidClientSecret", "RateLimited", "UnexpectedAuthResponse"}

\* C14: after a non-2xx answer of the token endpoint auth::run has returned
\* InvalidClientId for 400, InvalidClientSecret for 403, RateLimited for 429 and
\* UnexpectedAuthResponse with the status and the body for any other status;
\* after a 2xx answer it returns none of these errors.
C14_TokenEndpointErrorMapping ==
    TokenAnswered =>
        LET st == tokenOut.val.status
        IN  /\ st = 400 => ares = [kind |-> "InvalidClientId"]
            /\ st = 403 => ares = [kind |-> "InvalidClientSecret"]
            /\ st = 429 => ares = [kind |-> "RateLimited"]
            /\ (st < 200 \/ st > 299) /\ st \notin {400, 403, 429} =>
                 ares = [kind |-> "UnexpectedAuthResponse", status |-> st,
                         body |-> tokenOut.val.body]
            /\ (st >= 200 /\ st <= 299) => ares.kind \notin AuthErrorKinds
            /\ (st < 200 \/ st > 299) => cpc = "done" /\ cres = ares

C14_Witness ==
    /\ TokenAnswered /\ tokenOut.val.status = 429
    /\ cpc = "done" /\ cres = [kind |-> "RateLimited"]

\* the failures of a refresh before anything is saved
RefreshFailureKinds ==
    {"MissingCredentials", "TransportError", "TokenParseError"} \cup AuthErrorKinds

\* C15: when auth::run has returned Ok, exactly one rename has put a record
\* into the store file, which holds the record given to save_config; when it
\* has returned MissingCredentials, a transport error, an error for a non-2xx
\* status or a parse error of the token response, no rename has happened and
\* the store files are as they were.
C15_OneStoreWritePerSuccessfulRefresh ==
    /\ ares.kind = "Ok" =>
          /\ renames = 1
          /\ savedRec.some /\ fs.path = Json(savedRec.val)
    /\ ares.kind \in RefreshFailureKinds =>
          /\ renames = 0 /\ ~savedRec.some
          /\ fs = [path |-> fs0, tmp |-> Absent]

C15_Witness ==
    /\ cmd = "auth" /\ cpc = "done" /\ ares.kind = "Ok"
    /\ renames = 1 /\ fs0.kind = "json" /\ fs.path # fs0
    /\ fs.path.rec.access_token = Some(S_newtoken)

\* C16: once save_config has been called, a load of the store file returns the
\* record the file held before or the record being saved.
C16_ReaderSeesOldOrNewRecord ==
    savedRec.some => load_config(fs.path) \in {Ok(Cached), Ok(savedRec.val)}

\* C17: the store file is always absent or a complete JSON text, so that
\* load_config never fails with a parse error; once save_config has been
\* called the file holds the old record, no record or the new record; an empty
\* or partial text is only ever in the temporary file.
C17_StoreFileNeverUnparseable ==
    /\ fs.path.kind \in {"absent", "json"}
    /\ load_config(fs.path).ok
    /\ fs.path \in {fs0, Absent} \/ (savedRec.some /\ fs.path = Json(savedRec.val))

C17_Witness ==
    /\ cpc = "done" /\ cres = [kind |-> "SaveError", step |-> "write"]
    /\ fs.tmp = Partial
    /\ fs0.kind = "json" /\ fs.path = fs0

\* ========================================================================
\* Claims about the batch requests (SpecFetch)
\* ========================================================================
RECURSIVE RequestedItems(_)
RequestedItems(rs) == IF rs = <<>> THEN <<>> ELSE Head(rs).items \o RequestedItems(Tail(rs))

FetchCalled == cmd \in {"fetch_users", "fetch_streams"}

\* C18: a fetch of n items that returns Ok has sent ceil(n / 100) requests, each
\* with at least one and at most 100 items, and the items of the requests, put
\* one after the other, are the requested items.
C18_OneRequestPerHundredItems ==
    (FetchCalled /\ cpc = "done" /\ cres.kind = "Ok") =>
        /\ Len(reqs) = (Len(items) + 99) \div 100
        /\ \A i \in 1..Len(reqs) :
             /\ Len(reqs[i].items) >= 1 /\ Len(reqs[i].items) <= 100
             /\ reqs[i].kind = IF cmd = "fetch_users" THEN "users" ELSE "streams"
        /\ RequestedItems(reqs) = items

C18_Witness ==
    /\ cmd = "fetch_streams" /\ cpc = "done" /\ cres.kind = "Ok"
    /\ Len(items) = 150 /\ Len(reqs) = 2
    /\ Len(reqs[1].items) = 100 /\ Len(reqs[2].items) = 50

\* the resolver endpoint has answered with a status
ApiAnswered == apiOut.some /\ apiOut.val.kind = "http"

\* C19: after a non-2xx answer of a resolver endpoint the fetch has returned
\* InvalidClientId for 400, InvalidClientSecret for 403, RateLimited for 429,
\* Unauthorized for 401 and the unexpected-response error with the status and
\* the body for any other status.
C19_ResolverErrorMapping ==
    (ApiAnswered /\ ~(apiOut.val.status >= 200 /\ apiOut.val.status <= 299)) =>
        LET st == apiOut.val.status
        IN  /\ cpc = "done"
            /\ st = 400 => cres = [kind |-> "InvalidClientId"]
            /\ st = 403 => cres = [kind |-> "InvalidClientSecret"]
            /\ st = 429 => cres = [kind |-> "RateLimited"]
            /\ st = 401 => cres = [kind |-> "Unauthorized"]
            /\ st \notin {400, 401, 403, 429} =>
                 cres = [kind |-> "UnexpectedApiResponse", status |-> st,
                         body |-> apiOut.val.body]

\* ========================================================================
\* Claims about follow::run (SpecCli)
\* ========================================================================
\* the requested logins the service does not know, compared in lower case
Unrecognized == SelectSeq(args.logins, LAMBDA l : to_lowercase(l) \notin upstream.known)

\* C20: when the fetch of follow has returned, follow does not fail because of
\* logins the service does not know, whatever subset it knows: it goes on to
\* the database, and when it returns Ok it reports exactly the unknown logins.
C20_UnrecognizedLoginsAreNotAnError ==
    (cmd = "follow" /\ cpc = "done") =>
        /\ cres.kind # "NoStreamersFound"
        /\ cres.kind = "Ok" => cres.missing = Unrecognized

\* ========================================================================
\* Claims about a refresh inside follow and list (SpecCli)
\* ========================================================================
\* auth::run, called by follow or list, has returned an error
RefreshFailedInside == InFollowOrList /\ ares.kind \notin {"running", "Ok"}

\* C22: when auth::run has failed inside follow or list, no resolver request was
\* sent, the follow-list store has no new row and was not created, and the
\* store file of the credentials is as it was.
C22_FailedRefreshHasNoSideEffect ==
    RefreshFailedInside =>
        /\ reqs = <<>>
        /\ upserted = 0 /\ (cmd = "follow" => db = NoDb)
        /\ fs.path = fs0

\* C25: when auth::run has returned Ok the store file holds the new access token
\* and the expiry that is the time of the refresh plus the TTL of the token
\* response; when the store file does not hold the saved record, auth::run has
\* not returned Ok.
C25_SuccessOnlyAfterPersisted ==
    /\ ares.kind = "Ok" =>
          /\ fs.path.kind = "json"
          /\ fs.path.rec.access_token = Some(S_newtoken)
          /\ fs.path.rec.expires_at = Some(tokenOut.at + tokenOut.val.ttl)
    /\ (savedRec.some /\ fs.path # Json(savedRec.val)) => ares.kind # "Ok"

C25_Witness ==
    /\ cmd = "auth" /\ cpc = "done" /\ ares.kind = "Ok"
    /\ tokenOut.at = 1 /\ tokenOut.val.ttl = 2
    /\ fs.path.rec.expires_at = Some(3)

\* C27: after a refresh inside follow the reloaded record, whose token the
\* resolver requests carry, has a non-blank token and an expiry strictly after
\* the time of the refresh.
C27_RefreshedTokenIsFresh ==
    (cmd = "follow" /\ ares.kind = "Ok" /\ cpc \in {"creds", "fetch_call", "fetch"}) =>
        /\ fcfg.access_token.some /\ NonBlank(fcfg.access_token.val)
        /\ fcfg.expires_at.some /\ tokenOut.at < fcfg.expires_at.val

\* C29: when auth::run has returned Ok the client id and the client secret in
\* the store file are those the store held before the refresh.
C29_RefreshKeepsClientCredentials ==
    ares.kind = "Ok" =>
        /\ fs.path.kind = "json"
        /\ fs.path.rec.client_id = Cached.client_id
        /\ fs.path.rec.client_secret = Cached.client_secret

C29_Witness ==
    /\ cmd = "list" /\ ares.kind = "Ok" /\ cpc = "done" /\ cres.kind = "Ok"
    /\ Cached.client_id = Some(S_id) /\ Cached.client_secret = Some(S_secret)
    /\ fs.path.rec.client_id = Some(S_id) /\ fs.path.rec.access_token # Cached.access_token

\* ------------------------------------------------------------------------
\* Claims about the spawn loop and the join loop of watch (SpecWatch, SpecWatchLive)
\* ------------------------------------------------------------------------
AllSpawned == wpc \in {"join", "done"} /\ logins # <<>> /\ Len(handles) = Len(logins)

AllExited == \A i \in 1..Len(child) : child[i] \notin {"none", "running"}

\* C23: the targets are spawned in the order of the normalized list: a target is
\* spawned only after every target before it was, and the handles are pushed in
\* that order. The spawn of the next target waits for no child: while the loop is
\* at a target, spawning it is possible whatever the children before it do, and the
\* join loop is reached only with every target spawned.
C23_SpawnInOrderWithoutWaiting ==
    /\ \A i \in 1..Len(spawned) :
          spawned[i] # "none" => \A j \in 1..(i - 1) : spawned[j] = "ok"
    /\ handles = [k \in 1..Len(handles) |-> k]
    /\ wpc = "spawn" => ENABLED (Spawn /\ Len(handles') = Len(handles) + 1)
    /\ wpc = "join" => \A i \in 1..Len(logins) : spawned[i] = "ok"

\* three targets are spawned and none of the children has exited
C23_Witness ==
    /\ wpc = "join" /\ Len(logins) = 3 /\ joined = 0
    /\ \A i \in 1..3 : spawned[i] = "ok" /\ child[i] = "running"

\* C24: once every target is spawned, watch::run has not returned while a child
\* is running, a running child stops running only by its own exit and not in a
\* step of run (no timeout, no cancellation), and from the time every child has
\* exited run eventually returns.
C24_ReturnsExactlyWhenAllChildrenExited ==
    /\ [](AllSpawned /\ wpc = "done" => AllExited)
    /\ [][\A i \in 1..Len(child) :
            (child[i] = "running" /\ child'[i] # "running") =>
                (wpc' = wpc /\ joined' = joined /\ result' = result)]_vars
    /\ ((wpc = "join" /\ AllExited) ~> (wpc = "done"))

\* run has returned after awaiting three children, the second of which failed
C24_Witness ==
    /\ wpc = "done" /\ AllSpawned /\ Len(handles) = 3 /\ joined = 3
    /\ child[1] = "exit0" /\ child[2] = "exit1" /\ child[3] = "exit0"
    /\ result.kind = "Failed"

\* ------------------------------------------------------------------------
\* Claims about the targets normalize_inputs returns (SpecNormalize)
\* ------------------------------------------------------------------------
TargetChars == Range(LowerSeq) \cup Range(DigitSeq) \cup {"_"}

\* a URL of the service whose path segment has a character that no login has
OtherCharUrl(s) == \E seg \in SegmentsOf(s) : seg # <<>> /\ ~(Range(seg) \subseteq LoginChars)

\* C26: every identifier of a returned list is non-empty, has only lowercase ASCII
\* letters, digits and underscores, and occurs once in the list; a list with a URL
\* whose path segment has another character is rejected.
C26_TargetsAreDistinctLowercaseLogins ==
    normOut.called =>
        /\ normOut.res.ok =>
              LET out == normOut.res.val
              IN  /\ \A a \in 1..Len(out) : out[a] # <<>> /\ Range(out[a]) \subseteq TargetChars
                  /\ \A a, b \in 1..Len(out) : a # b => out[a] # out[b]
        /\ (\E k \in 1..Len(rawList) : OtherCharUrl(rawList[k])) => ~normOut.res.ok

\* a URL and bare names, in upper and lower case, give two targets
C26_Witness ==
    /\ normOut.called
    /\ rawList = <<Ex_urlFoo, <<"b","_","1">>, Ex_FOO>>
    /\ normOut.res.ok /\ normOut.res.val = <<In_foo, <<"b","_","1">>>>

\* C28: each returned target t is what parse_twitch_url gives for the playback
\* URL https://www.twitch.tv/t, and normalize_inputs returns the same list in the
\* same order for its own output, given as bare names or as playback URLs.
C28_NormalizeRoundTripsAndIsIdempotent ==
    renormOut.called =>
        LET out == normOut.res.val
        IN  /\ Len(renormOut.parsed) = Len(out)
            /\ \A a \in 1..Len(out) : renormOut.parsed[a] = Some(out[a])
            /\ renormOut.bare.ok /\ renormOut.bare.val = out
            /\ renormOut.derived.ok /\ renormOut.derived.val = out

\* two targets from three inputs, and the same two targets from their playback URLs
C28_Witness ==
    /\ renormOut.called
    /\ rawList = <<S_http \o S_www \o S_host \o <<"b","_","1">>, Ex_FOO, In_foo>>
    /\ normOut.res.val = <<<<"b","_","1">>, In_foo>>
    /\ renormOut.parsed = <<Some(<<"b","_","1">>), Some(In_foo)>>
    /\ renormOut.derived.val = <<<<"b","_","1">>, In_foo>>

\* ------------------------------------------------------------------------
\* Claims about config::run (SpecCli)
\* ------------------------------------------------------------------------
Ts_utc == <<"1","9","7","0","-","0","1","-","0","1","T","0","0",":","0","0",":","0","2","Z">>
Ts_offset ==
    <<"1","9","7","0","-","0","1","-","0","1","T","0","1",":","0","0",":","0","3","+","0","1",":","0","0">>

\* two seconds, and one hour and three seconds at one hour east of UTC, after
\* 1970-01-01T00:00:00Z
InstantOf(ts) == IF ts = Ts_utc THEN 2 ELSE 3

UpdateFlags == {"client_id", "client_secret", "access_token", "expires_at"}
HasUpdateFlag == \E f \in UpdateFlags : cargs[f].some
BadExpiresAt == cargs.expires_at.some /\ cargs.expires_at.val \notin {Ts_utc, Ts_offset}
StoreUntouched == fs = [path |-> fs0, tmp |-> Absent]

\* the stored record with the given flags put over it
Updated ==
    [client_id |-> IF cargs.client_id.some THEN cargs.client_id ELSE Cached.client_id,
     client_secret |-> IF cargs.client_secret.some THEN cargs.client_secret
                       ELSE Cached.client_secret,
     access_token |-> IF cargs.access_token.some THEN cargs.access_token
                      ELSE Cached.access_token,
     expires_at |-> IF cargs.expires_at.some THEN Some(InstantOf(cargs.expires_at.val))
                    ELSE Cached.expires_at]

\* C30: config touches the files of the credential store only with an update
\* flag given and an --expires-at, if given, that is an RFC3339 timestamp; with
\* no flag it fails, with --show alone it prints the stored config, with another
\* --expires-at it fails whatever the other flags are; a successful update leaves
\* in the store the record it held with exactly the given fields replaced.
C30_ConfigWritesOnlyValidUpdates ==
    cmd = "config" =>
        /\ ~StoreUntouched => HasUpdateFlag /\ ~BadExpiresAt
        /\ cpc = "done" =>
              /\ (~cargs.show /\ ~HasUpdateFlag) => cres.kind = "NoFlags"
              /\ (cargs.show /\ ~HasUpdateFlag) =>
                    cres.kind = "Ok" /\ cres.printed /\ cres.shown = print_config(Cached)
              /\ BadExpiresAt => cres.kind = "InvalidExpiresAt"
              /\ (HasUpdateFlag /\ cres.kind = "Ok") =>
                    /\ fs.path = Json(Updated)
                    /\ cres.printed = cargs.show

\* --client-id and --expires-at given over a stored record with a secret and a token
C30_Witness ==
    /\ cmd = "config" /\ cpc = "done" /\ cres.kind = "Ok"
    /\ cargs = [client_id |-> Some(<<"I">>), client_secret |-> None, access_token |-> None,
                expires_at |-> Some(Ts_offset), show |-> FALSE]
    /\ fs0 = Json([client_id |-> Some(S_id), client_secret |-> Some(S_secret),
                   access_token |-> Some(S_token), expires_at |-> Some(1)])
    /\ fs.path = Json([client_id |-> Some(<<"I">>), client_secret |-> Some(S_secret),
                       access_token |-> Some(S_token), expires_at |-> Some(3)])

\* ------------------------------------------------------------------------
\* Claims about the delete of unfollow (SpecCli)
\* ------------------------------------------------------------------------
SameLogin(a, b) == to_lowercase(a) = to_lowercase(b)

\* C21: a call of the delete removes exactly the stored rows whose login is the
\* given one without regard to case and returns their number, so "Foo" removes
\* the one row stored as "foo" and returns 1; the same call repeated right after
\* it returns 0 and leaves the rows as they are.
C21_DeleteMatchesCaseInsensitivelyOnce ==
    \A n \in 1..Len(unf.calls) :
        LET c == unf.calls[n]
        IN  /\ c.after = {r \in c.before : ~SameLogin(r.name, c.login)}
            /\ c.affected = Cardinality(c.before \ c.after)
            /\ (c.login = In_Foo /\ {r \in c.before : r.name = In_foo} = {Row_foo}
                   /\ \A r \in c.before : r.name # In_foo => ~SameLogin(r.name, In_foo)) =>
                  c.affected = 1 /\ Row_foo \notin c.after
            /\ (n > 1 /\ unf.calls[n - 1].login = c.login /\ unf.calls[n - 1].after = c.before) =>
                  c.affected = 0 /\ c.after = c.before

\* unfollow Foo run twice over a follow list with foo and bar: the first delete
\* removes foo and returns 1, the second returns 0
C21_Witness ==
    /\ cmd = "unfollow" /\ cpc = "done" /\ unf.runs = 2
    /\ args.logins = <<In_Foo>>
    /\ Len(unf.calls) = 2
    /\ unf.calls[1].before = {Row_foo, Row_bar} /\ unf.calls[1].affected = 1
    /\ unf.calls[2].before = {Row_bar} /\ unf.calls[2].affected = 0
    /\ db.rows = {Row_bar}

\* ------------------------------------------------------------------------
\* Claims about unfollow::run (SpecCli)
\* ------------------------------------------------------------------------

\* the logins of the command line that are the first with their lower-cased key
FirstOfKey(list) ==
    SelectSeq([k \in 1..Len(list) |-> [at |-> k, login |-> list[k]]],
              LAMBDA e : \A j \in 1..(e.at - 1) : ~SameLogin(list[j], e.login))

\* the calls of the delete made by the present run: a run before it has returned
\* Ok, so it called the delete once for each first login
RunCalls ==
    SubSeq(unf.calls, ((unf.runs - 1) * Len(FirstOfKey(args.logins))) + 1, Len(unf.calls))

RECURSIVE SumAffected(_)
SumAffected(calls) == IF calls = <<>> THEN 0 ELSE Head(calls).affected + SumAffected(Tail(calls))

UnfollowReturned == cmd = "unfollow" /\ cpc = "done"

\* C31: a run of unfollow calls the delete for the logins of the command line
\* that are the first with their lower-cased key, in their order, and for no
\* other; when every call has returned a count, run returns Ok with the sum of the
\* counts as `removed` and the logins whose count is 0 as `missing`, also when the
\* sum is 0. Only a failure of db::connect or of a delete makes it return an error.
C31_UnfollowDeletesOncePerLogin ==
    cmd = "unfollow" =>
        LET firsts == FirstOfKey(args.logins)
            calls == RunCalls
        IN  /\ Len(calls) <= Len(firsts)
            /\ \A n \in 1..Len(calls) : calls[n].login = firsts[n].login
            /\ \A a, b \in 1..Len(calls) : a # b => ~SameLogin(calls[a].login, calls[b].login)
            /\ cpc = "done" =>
                  /\ cres.kind \in {"Ok", "DbError"}
                  /\ cres.kind = "Ok" <=> (db.exists /\ Len(calls) = Len(firsts))
                  /\ cres.kind = "Ok" =>
                        /\ cres.removed = SumAffected(calls)
                        /\ cres.missing =
                              [n \in 1..Len(SelectSeq(calls, LAMBDA c : c.affected = 0)) |->
                                  SelectSeq(calls, LAMBDA c : c.affected = 0)[n].login]

\* unfollow baz foo Foo run twice over a follow list with foo and bar: each run
\* calls the delete for baz and foo only; the first removes foo, the second
\* removes nothing, lists baz and foo as not followed and returns Ok
C31_Witness ==
    /\ UnfollowReturned /\ cres.kind = "Ok" /\ unf.runs = 2
    /\ args.logins = <<In_baz, In_foo, In_Foo>>
    /\ Len(unf.calls) = 4
    /\ unf.calls[1].before = {Row_foo, Row_bar} /\ unf.calls[2].affected = 1
    /\ cres.removed = 0 /\ cres.missing = <<In_baz, In_foo>>
    /\ db.rows = {Row_bar}

\* ------------------------------------------------------------------------
\* Claims about list::run (SpecCli)
\* ------------------------------------------------------------------------

\* the ids of the liveness result, and the followed streamers that are in it
LiveIds == {got[k].user_id : k \in 1..Len(got)}
FollowedLive == {r \in db.rows : r.id \in LiveIds}

\* the rows shown are one row for each streamer of the set, and no other row
ShowsExactly(shown, set) ==
    /\ Len(shown) = Cardinality(set)
    /\ \A r \in set : \E n \in 1..Len(shown) :
          shown[n].login = r.name /\ shown[n].display_name = r.display_name

\* the status shown for the streamer with login `name`
StatusOf(shown, name) == {shown[n].status : n \in {m \in 1..Len(shown) : shown[m].login = name}}

\* C32: list returning Ok shows, with --status online, one row for each followed
\* streamer whose id is in the liveness result and no other row, with --status
\* offline one row for each followed streamer whose id is not in it and no other,
\* and with --status all one row for each followed streamer with its status; with
\* an empty follow list auth::run is not called and no request is sent.
C32_ListPartitionsByLiveness ==
    cmd = "list" =>
        /\ (cpc = "done" /\ cres.kind = "Ok" /\ db.rows # {}) =>
              /\ args.status = "Online" => ShowsExactly(cres.rows, FollowedLive)
              /\ args.status = "Offline" => ShowsExactly(cres.rows, db.rows \ FollowedLive)
              /\ args.status = "All" =>
                    /\ ShowsExactly(cres.rows, db.rows)
                    /\ \A r \in db.rows :
                          StatusOf(cres.rows, r.name) =
                              {IF r \in FollowedLive THEN Some(<<"o","n">>)
                               ELSE Some(<<"o","f","f">>)}
        /\ db.rows = {} =>
              /\ refreshes = 0 /\ tokenCalls = 0 /\ reqs = <<>>
              /\ cpc = "done" => cres \in {[kind |-> "Ok", rows |-> <<>>]}
                                        \cup {[kind |-> "DbError", step |-> st] : st \in ConnectOutcomes}

\* list --status all with foo and bar followed and only foo live, after a refresh
C32_Witness ==
    /\ cmd = "list" /\ cpc = "done" /\ cres.kind = "Ok" /\ args.status = "All"
    /\ ares.kind = "Ok"
    /\ db.rows = {Row_foo, Row_bar} /\ LiveIds = {Row_foo.id}
    /\ Len(cres.rows) = 2
    /\ cres.rows[1].login = Row_bar.name /\ cres.rows[1].status = Some(<<"o","f","f">>)
    /\ cres.rows[2].login = Row_foo.name /\ cres.rows[2].status = Some(<<"o","n">>)

====
